---- MODULE Spec2Model ----
(***************************************************************************)
(* Flight-recovery optimisation engine (backend/tools/Optimizer.py).       *)
(*                                                                         *)
(* The module models Optimizer.batch_solve: for every weight vector it     *)
(* builds the MILP (build_model with its three constraint compilers),      *)
(* hands it to the external solver and extracts the result table.          *)
(*                                                                         *)
(* The MILP itself is kept as data: a model is the list of its linear      *)
(* constraints, its auxiliary variables and its objective, exactly as the  *)
(* code emits them; the solver is a nondeterministic choice among the      *)
(* assignments that satisfy every emitted constraint.                      *)
(*                                                                         *)
(* Continuous quantities (d, dep_time_of_day, arr_time_of_day) are         *)
(* rationals with denominator 10, stored as their numerator ("tenths").    *)
(* Weights are stored in tenths too, so the objective is kept in           *)
(* hundredths.                                                             *)
(***************************************************************************)
EXTENDS Integers, Sequences, FiniteSets, TLC

VARIABLES
    flights_df,       \* the caller's flight table (sequence of rows)
    constraint_data,  \* the caller's constraint bundle
    weight_sets,      \* the ordered list of weight vectors
    pc,               \* position inside batch_solve's loop body
    i,                \* loop index (1-based) into weight_sets
    m,                \* the model built for weight_sets[i]
    result,           \* the solver's result object
    val,              \* the variable values the solver loaded into m
    solutions         \* the list batch_solve returns

vars == <<flights_df, constraint_data, weight_sets, pc, i, m, result, val, solutions>>

----------------------------------------------------------------------------
(* Bounds of the model                                                     *)

MaxFlights == 2
MaxWeightSets == 2
MaxOverage == 2
MaxSoftPairs == 1

----------------------------------------------------------------------------
(* Program constants                                                       *)

MINUTES_IN_DAY == 24 * 60
MINUTES_IN_TWO_DAYS == 48 * 60

\* batch_solve's defaults, handed to build_model
severe_delay_threshold == 360
big_m == 50000

\* build_model's own defaults, in force when solve calls it
default_max_delay_minutes == 240
default_big_m == 10000

C_SWAP == 15000
C_DELAY_PER_MIN == 80
PENALTY_HIGH == 1000000
PENALTY_MEDIUM == 100000
PENALTY_LOW == 10000

Tenths(x) == x * 10

Min(a, b) == IF a < b THEN a ELSE b

RECURSIVE SumOver(_, _)
\* sum of g[k] over the finite set S
SumOver(S, g) ==
    IF S = {} THEN 0
    ELSE LET k == CHOOSE k \in S : TRUE
         IN  g[k] + SumOver(S \ {k}, g)

Range(s) == {s[k] : k \in DOMAIN s}

----------------------------------------------------------------------------
(* Flight table                                                            *)

\* _normalize_flight_df: derived columns of one row
TargetDepMinOfDay(t) == ((t \div 60) % 24) * 60 + (t % 60)

\* df[col] if col is a column of the table, else the default
Column(r, col, default) == IF col \in DOMAIN r THEN r[col] ELSE default

\* the normalizer moving the schedule time onto the target time
NormalizeRowRebasingSTOT(r) ==
    LET STOT == Column(r, "STOT", Column(r, "scheduled_departure_time", 0))
        target == Column(r, "target_departure_time", STOT)
    IN  [flight_id |-> Column(r, "flight_id", r.flight_number),
         flight_number |-> r.flight_number,
         departure_airport |-> r.departure_airport,
         arrival_airport |-> r.arrival_airport,
         STOT |-> target,
         target_departure_time |-> target,
         flight_duration_minutes |-> Column(r, "flight_duration_minutes", 120),
         revenue |-> Column(r, "revenue", 30000),
         base_delay_minutes |-> target - STOT,
         target_dep_min_of_day |-> TargetDepMinOfDay(target)]

\* One row of _normalize_flight_df.  STOT is the STOT column or, without
\* one, the scheduled departure column; target, duration, revenue and
\* flight_id are filled only when the incoming table has no such column.
\* The table's other columns (the loader's originals) pass through
\* untouched and are not read by the engine; they are left out.
NormalizeRow(r) ==
    LET STOT == Column(r, "STOT", Column(r, "scheduled_departure_time", 0))
        target == Column(r, "target_departure_time", STOT)
    IN  [flight_id |-> Column(r, "flight_id", r.flight_number),
         flight_number |-> r.flight_number,
         departure_airport |-> r.departure_airport,
         arrival_airport |-> r.arrival_airport,
         STOT |-> STOT,
         target_departure_time |-> target,
         flight_duration_minutes |-> Column(r, "flight_duration_minutes", 120),
         revenue |-> Column(r, "revenue", 30000),
         base_delay_minutes |-> target - STOT,
         target_dep_min_of_day |-> TargetDepMinOfDay(target)]

NormalizeFlightDf(df) == [k \in DOMAIN df |-> NormalizeRow(df[k])]

\* df.index.duplicated().any()
IndexDuplicated(df) ==
    \E j, k \in DOMAIN df : j # k /\ df[j].flight_id = df[k].flight_id

\* f"F{i+1}" for the row at position k
SequentialId(k) == <<"F1", "F2", "F3", "F4", "F5", "F6">>[k]

\* the API handler's repair of a duplicated index
EnsureUniqueIndex(df) ==
    IF IndexDuplicated(df)
    THEN [k \in DOMAIN df |-> [df[k] EXCEPT !.flight_id = SequentialId(k)]]
    ELSE df

\* the table the API handler passes to batch_solve
ApiFlightTable(flights) == EnsureUniqueIndex(NormalizeFlightDf(flights))

\* df.loc[f]: the row with index f
Loc(df, f) == df[CHOOSE k \in DOMAIN df : df[k].flight_id = f]

----------------------------------------------------------------------------
(* CDMDataLoader.load_cdm_data                                             *)

\* a timestamp or duration cell: a value in minutes, or NaT / NaN
NaT == [na |-> TRUE, t |-> 0]
At(t) == [na |-> FALSE, t |-> t]

\* step 6: expected landing minus expected take-off, NaN if either is NaT
ComputedDuration(r) ==
    IF r.expected_departure_time.na \/ r.expected_arrival_time.na THEN NaT
    ELSE At(r.expected_arrival_time.t - r.expected_departure_time.t)

\* Series.mean() skips NaN and is NaN over no value at all; the tables in
\* use have means of whole minutes
MeanDuration(rows) ==
    LET known == {k \in DOMAIN rows : ~ComputedDuration(rows[k]).na}
    IN  IF known = {} THEN NaT
        ELSE At(SumOver(known, [k \in known |-> ComputedDuration(rows[k]).t])
                    \div Cardinality(known))

\* fillna(mean_duration), or fillna(120) when the mean is NaN
FilledDuration(rows, k) ==
    IF ~ComputedDuration(rows[k]).na THEN ComputedDuration(rows[k]).t
    ELSE IF ~MeanDuration(rows).na THEN MeanDuration(rows).t
    ELSE 120

\* step 8 for a table without a CTOT column
GetTargetDepartureTime(r) ==
    IF ~r.expected_departure_time.na THEN r.expected_departure_time
    ELSE IF ~r.scheduled_departure_time.na THEN r.scheduled_departure_time
    ELSE NaT

\* revenue of a table without a passenger column
DefaultRevenue == 75000

\* the columns of the loaded table that the engine reads
LoadedRow(rows, k) ==
    [flight_number |-> rows[k].flight_number,
     departure_airport |-> rows[k].departure_airport,
     arrival_airport |-> rows[k].arrival_airport,
     scheduled_departure_time |-> rows[k].scheduled_departure_time.t,
     flight_duration_minutes |-> FilledDuration(rows, k),
     revenue |-> DefaultRevenue,
     target_departure_time |-> GetTargetDepartureTime(rows[k]).t]

RECURSIVE DropNaTargets(_, _)
\* step 10: dropna(subset = ['target_departure_time'])
DropNaTargets(rows, k) ==
    IF k > Len(rows) THEN <<>>
    ELSE (IF GetTargetDepartureTime(rows[k]).na THEN <<>> ELSE <<LoadedRow(rows, k)>>)
            \o DropNaTargets(rows, k + 1)

LoadCdmData(rows) == DropNaTargets(rows, 1)

----------------------------------------------------------------------------
(* Strings the compilers parse                                             *)

\* A time-of-day string: colon is "':' in s", numeric is "int() accepts the
\* parts", hh and mm are the parts' values.
Time(h, mi) == [colon |-> TRUE, numeric |-> TRUE, hh |-> h, mm |-> mi]
NoColonTime == [colon |-> FALSE, numeric |-> TRUE, hh |-> 0, mm |-> 0]
GarbledTime == [colon |-> TRUE, numeric |-> FALSE, hh |-> 0, mm |-> 0]

\* A capacity window key: 'HH:MM-HH:MM' (syntax "range"), 'HH:MM(+M)'
\* (syntax "plus") or anything else (syntax "other").
RangeKey(s, e) == [syntax |-> "range", s |-> s, e |-> e, dur |-> 0]
PlusKey(s, d) == [syntax |-> "plus", s |-> s, e |-> s, dur |-> d]
OtherKey == [syntax |-> "other", s |-> NoColonTime, e |-> NoColonTime, dur |-> 0]
NoKey == [syntax |-> "none", s |-> NoColonTime, e |-> NoColonTime, dur |-> 0]

\* the float nan that pandas holds in a cell of a column which the row did
\* not state (other rows of the table did); it is no string
NaN == "float nan"
HasUpper(p) == p # NaN

\* str.upper() on the priority strings in use
Upper(p) ==
    CASE p = "high" -> "HIGH"
      [] p = "medium" -> "MEDIUM"
      [] p = "low" -> "LOW"
      [] p = "must" -> "MUST"
      [] OTHER -> p

----------------------------------------------------------------------------
(* Components of the pyomo model                                           *)

\* Component names given to m.add_component
CompName(base, f, ap, key) == [base |-> base, f |-> f, ap |-> ap, key |-> key]
NoName == CompName("", "", "", NoKey)

IsBinaryName(n) ==
    n.base \in {"curfew_hard_choice", "curfew_soft_violation", "curfew_soft_choice"}

\* build_model without the row cancel + swap <= 1
StructuralConsNoExcl(df, f, max_delay_minutes) ==
    LET base_dep == Loc(df, f).target_dep_min_of_day
        fdur == Loc(df, f).flight_duration_minutes
    IN  << [t |-> "link", f |-> f],
           [t |-> "gate", f |-> f, max_delay |-> max_delay_minutes],
           [t |-> "dep", f |-> f, base_dep |-> base_dep],
           [t |-> "arr", f |-> f, base_dep |-> base_dep, fdur |-> fdur] >>

\* build_model without the row d <= max_delay_minutes * x
StructuralConsNoGate(df, f, max_delay_minutes) ==
    LET base_dep == Loc(df, f).target_dep_min_of_day
        fdur == Loc(df, f).flight_duration_minutes
    IN  << [t |-> "excl", f |-> f],
           [t |-> "link", f |-> f],
           [t |-> "dep", f |-> f, base_dep |-> base_dep],
           [t |-> "arr", f |-> f, base_dep |-> base_dep, fdur |-> fdur] >>

\* build_model with the arrival row leaving out the flight's duration
StructuralConsNoDuration(df, f, max_delay_minutes) ==
    LET base_dep == Loc(df, f).target_dep_min_of_day
    IN  << [t |-> "excl", f |-> f],
           [t |-> "link", f |-> f],
           [t |-> "gate", f |-> f, max_delay |-> max_delay_minutes],
           [t |-> "dep", f |-> f, base_dep |-> base_dep],
           [t |-> "arr", f |-> f, base_dep |-> base_dep, fdur |-> 0] >>

\* The five structural constraints of flight f (build_model's first loop)
StructuralCons(df, f, max_delay_minutes) ==
    LET base_dep == Loc(df, f).target_dep_min_of_day
        fdur == Loc(df, f).flight_duration_minutes
    IN  << [t |-> "excl", f |-> f],
           [t |-> "link", f |-> f],
           [t |-> "gate", f |-> f, max_delay |-> max_delay_minutes],
           [t |-> "dep", f |-> f, base_dep |-> base_dep],
           [t |-> "arr", f |-> f, base_dep |-> base_dep, fdur |-> fdur] >>

RECURSIVE AllStructuralCons(_, _, _, _)
AllStructuralCons(df, F, k, max_delay_minutes) ==
    IF k > Len(F) THEN <<>>
    ELSE StructuralCons(df, F[k], max_delay_minutes)
            \o AllStructuralCons(df, F, k + 1, max_delay_minutes)

----------------------------------------------------------------------------
(* _apply_airport_curfew                                                   *)

\* int(parts[0]) * 60 + int(parts[1])
CurfewMinutes(ts) == ts.hh * 60 + ts.mm

\* the pair with the violation flag left out of its lower row
CurfewPairHalfRelease(f, time_var, st_min, ed_min, BIG_M, y, soft, v, origin) ==
    << [t |-> "curfew_ub", f |-> f, time_var |-> time_var, bound |-> ed_min,
        M |-> BIG_M, y |-> y, soft |-> soft, v |-> v, origin |-> origin],
       [t |-> "curfew_lb", f |-> f, time_var |-> time_var, bound |-> st_min,
        M |-> BIG_M, y |-> y, soft |-> FALSE, v |-> v, origin |-> origin] >>

\* The two Big-M rows of one (rule, flight) pair; soft rows carry v.
CurfewPair(f, time_var, st_min, ed_min, BIG_M, y, soft, v, origin) ==
    << [t |-> "curfew_ub", f |-> f, time_var |-> time_var, bound |-> ed_min,
        M |-> BIG_M, y |-> y, soft |-> soft, v |-> v, origin |-> origin],
       [t |-> "curfew_lb", f |-> f, time_var |-> time_var, bound |-> st_min,
        M |-> BIG_M, y |-> y, soft |-> soft, v |-> v, origin |-> origin] >>

RECURSIVE CurfewFlights(_, _, _, _, _, _, _)
\* the inner loop "for f in m.F" of one wrap-around rule r (row number k);
\* add_component raises on a name already in the model, which the
\* enclosing try turns into "continue" with the next rule
CurfewFlights(acc, r, k, st_min, ed_min, BIG_M, j) ==
    IF j > Len(acc.F) THEN acc
    ELSE
    LET f == acc.F[j]
        ap == r.AIRPORT_CODE
        is_dep == Loc(acc.df, f).departure_airport = ap
        is_arr == Loc(acc.df, f).arrival_airport = ap
        time_var == IF is_dep THEN "dep" ELSE "arr"
        priority == Column(r, "PRIORITY", "HIGH")
        origin == [family |-> "curfew", k |-> k]
    IN  IF ~(is_dep \/ is_arr)
        THEN CurfewFlights(acc, r, k, st_min, ed_min, BIG_M, j + 1)
        ELSE IF priority = "MUST"
        THEN LET y == CompName("curfew_hard_choice", f, ap, NoKey)
             IN  IF y \in acc.comps THEN acc
                 ELSE CurfewFlights(
                        [acc EXCEPT
                           !.comps = @ \cup {y},
                           !.cons = @ \o CurfewPair(f, time_var, st_min, ed_min,
                                                    BIG_M, y, FALSE, NoName, origin)],
                        r, k, st_min, ed_min, BIG_M, j + 1)
        ELSE LET v == CompName("curfew_soft_violation", f, ap, NoKey)
                 y == CompName("curfew_soft_choice", f, ap, NoKey)
             IN  IF v \in acc.comps THEN acc
                 ELSE IF y \in acc.comps
                 THEN [acc EXCEPT
                         !.comps = @ \cup {v},
                         !.penalty_terms = Append(@, [var |-> v, priority |-> priority,
                                                      origin |-> origin])]
                 ELSE CurfewFlights(
                        [acc EXCEPT
                           !.comps = @ \cup {v, y},
                           !.penalty_terms = Append(@, [var |-> v, priority |-> priority,
                                                        origin |-> origin]),
                           !.cons = @ \o CurfewPair(f, time_var, st_min, ed_min,
                                                    BIG_M, y, TRUE, v, origin)],
                        r, k, st_min, ed_min, BIG_M, j + 1)

\* the iteration without the test for a wrap-around window
CurfewRowAnyWindow(acc, r, k, BIG_M) ==
    IF r.RESTRICTION_TYPE # "AIRPORT_CURFEW" THEN acc
    ELSE IF ~(r.START_TIME_OF_DAY.colon /\ r.START_TIME_OF_DAY.numeric) THEN acc
    ELSE IF ~(r.END_TIME_OF_DAY.colon /\ r.END_TIME_OF_DAY.numeric) THEN acc
    ELSE CurfewFlights(acc, r, k, CurfewMinutes(r.START_TIME_OF_DAY),
                       CurfewMinutes(r.END_TIME_OF_DAY), BIG_M, 1)

\* one iteration of "for _, r in airport_res_df.iterrows()"
CurfewRow(acc, r, k, BIG_M) ==
    IF r.RESTRICTION_TYPE # "AIRPORT_CURFEW" THEN acc
    ELSE IF ~(r.START_TIME_OF_DAY.colon /\ r.START_TIME_OF_DAY.numeric) THEN acc
    ELSE IF ~(r.END_TIME_OF_DAY.colon /\ r.END_TIME_OF_DAY.numeric) THEN acc
    ELSE LET st_min == CurfewMinutes(r.START_TIME_OF_DAY)
             ed_min == CurfewMinutes(r.END_TIME_OF_DAY)
         IN  IF st_min > ed_min
             THEN CurfewFlights(acc, r, k, st_min, ed_min, BIG_M, 1)
             ELSE acc

RECURSIVE ApplyAirportCurfew(_, _, _, _)
ApplyAirportCurfew(acc, airport_res_df, k, BIG_M) ==
    IF k > Len(airport_res_df) THEN acc
    ELSE ApplyAirportCurfew(CurfewRow(acc, airport_res_df[k], k, BIG_M),
                            airport_res_df, k + 1, BIG_M)

----------------------------------------------------------------------------
(* _apply_hourly_capacity                                                  *)

\* dict.get(key, default); an absent key is the empty string
DictGet(value, default) == IF value = "" THEN default ELSE value

\* The parse of a window key: ok is FALSE where the code reaches a
\* "continue"; only the hour of 'HH:MM' is read.
ParseWindow(win_key) ==
    IF win_key.syntax = "range"
    THEN IF win_key.s.colon /\ win_key.s.numeric /\ win_key.e.colon /\ win_key.e.numeric
         THEN [ok |-> TRUE, start_min |-> win_key.s.hh * 60, end_min |-> win_key.e.hh * 60]
         ELSE [ok |-> FALSE, start_min |-> 0, end_min |-> 0]
    ELSE IF win_key.syntax = "plus"
    THEN IF win_key.s.colon /\ win_key.s.numeric
         THEN [ok |-> TRUE, start_min |-> win_key.s.hh * 60,
               end_min |-> win_key.s.hh * 60 + win_key.dur]
         ELSE [ok |-> FALSE, start_min |-> 0, end_min |-> 0]
    ELSE [ok |-> FALSE, start_min |-> 0, end_min |-> 0]

\* membership cut off half an hour after the window's start
FlightsInWindowFirstHalf(acc, ap, start_min, end_min) ==
    {f \in Range(acc.F) :
        /\ Loc(acc.df, f).departure_airport = ap
        /\ start_min <= Loc(acc.df, f).target_dep_min_of_day
        /\ Loc(acc.df, f).target_dep_min_of_day < start_min + 30}

\* [f for f in m.F if departure_airport == ap and start <= target < end]
FlightsInWindow(acc, ap, start_min, end_min) ==
    {f \in Range(acc.F) :
        /\ Loc(acc.df, f).departure_airport = ap
        /\ start_min <= Loc(acc.df, f).target_dep_min_of_day
        /\ Loc(acc.df, f).target_dep_min_of_day < end_min}

\* one iteration of the loop over (ap, win_key, details); entry number k
CapacityEntry(acc, e, k) ==
    LET details == e.details
        priority == IF details.is_dict THEN DictGet(details.priority, "HIGH") ELSE "HIGH"
        w == ParseWindow(e.win_key)
        flights_in_window == FlightsInWindow(acc, e.ap, w.start_min, w.end_min)
        origin == [family |-> "capacity", k |-> k]
        overage == CompName("capacity_overage", "", e.ap, e.win_key)
    IN  IF details.is_dict /\ ~details.has_limit THEN [acc EXCEPT !.raised = TRUE]
        ELSE IF ~details.is_dict /\ ~details.limit_numeric THEN [acc EXCEPT !.raised = TRUE]
        ELSE IF ~w.ok THEN acc
        ELSE IF flights_in_window = {} THEN acc
        ELSE IF ~details.limit_numeric THEN [acc EXCEPT !.raised = TRUE]
        ELSE IF priority = "MUST"
        THEN [acc EXCEPT
                !.cons = Append(@, [t |-> "capacity", flights |-> flights_in_window,
                                    limit |-> details.limit, soft |-> FALSE,
                                    slack |-> NoName, origin |-> origin])]
        ELSE IF overage \in acc.comps THEN [acc EXCEPT !.raised = TRUE]
        ELSE [acc EXCEPT
                !.comps = @ \cup {overage},
                !.cons = Append(@, [t |-> "capacity", flights |-> flights_in_window,
                                    limit |-> details.limit, soft |-> TRUE,
                                    slack |-> overage, origin |-> origin]),
                !.penalty_terms = Append(@, [var |-> overage, priority |-> priority,
                                             origin |-> origin])]

RECURSIVE ApplyHourlyCapacity(_, _, _)
ApplyHourlyCapacity(acc, cap, k) ==
    IF k > Len(cap) \/ acc.raised THEN acc
    ELSE ApplyHourlyCapacity(CapacityEntry(acc, cap[k], k), cap, k + 1)

----------------------------------------------------------------------------
(* _apply_quota                                                            *)

\* _apply_quota taking every priority, MUST included, down the soft branch
QuotaEntryAlwaysSoft(acc, details, kind) ==
    LET priority == DictGet(details.priority, "HIGH")
        origin == [family |-> "quota", k |-> IF kind = "cancel" THEN 1 ELSE 2]
        overage == CompName("quota_overage_" \o kind, "", "", NoKey)
    IN  IF ~details.present \/ ~details.has_max THEN acc
        ELSE [acc EXCEPT
                !.comps = @ \cup {overage},
                !.cons = Append(@, [t |-> "quota", kind |-> kind, limit |-> details.max,
                                    soft |-> TRUE, slack |-> overage, origin |-> origin]),
                !.penalty_terms = Append(@, [var |-> overage, priority |-> priority,
                                             origin |-> origin])]

\* one of the two blocks of _apply_quota: kind is "cancel" or "swap"
QuotaEntry(acc, details, kind) ==
    LET priority == DictGet(details.priority, "HIGH")
        origin == [family |-> "quota", k |-> IF kind = "cancel" THEN 1 ELSE 2]
        overage == CompName("quota_overage_" \o kind, "", "", NoKey)
        row(soft, slack) == [t |-> "quota", kind |-> kind, limit |-> details.max,
                             soft |-> soft, slack |-> slack, origin |-> origin]
    IN  IF ~details.present \/ ~details.has_max THEN acc
        ELSE IF priority = "MUST"
        THEN [acc EXCEPT !.cons = Append(@, row(FALSE, NoName))]
        ELSE [acc EXCEPT
                !.comps = @ \cup {overage},
                !.cons = Append(@, row(TRUE, overage)),
                !.penalty_terms = Append(@, [var |-> overage, priority |-> priority,
                                             origin |-> origin])]

ApplyQuota(acc, quota) ==
    QuotaEntry(QuotaEntry(acc, quota.cancel, "cancel"), quota.swap, "swap")

----------------------------------------------------------------------------
(* build_model                                                             *)

\* no slack charged at all
PenaltyCostFree(priority) == 0

\* every slack charged at the fallback cost
PenaltyCostFlat(priority) == PENALTY_MEDIUM

\* C.get("PENALTY_" + priority.upper(), C["PENALTY_MEDIUM"])
PenaltyCost(priority) ==
    CASE Upper(priority) = "HIGH" -> PENALTY_HIGH
      [] Upper(priority) = "MEDIUM" -> PENALTY_MEDIUM
      [] Upper(priority) = "LOW" -> PENALTY_LOW
      [] OTHER -> PENALTY_MEDIUM

\* A weight vector is a dict from a subset of {cancel, delay, swap} to
\* tenths; NotADict stands for a value without .get (None).
NotADict == [None |-> 0]
IsDict(weights) == "None" \notin DOMAIN weights

\* weights.get(k, d); weights and defaults are in tenths
W(weights, k, d) == IF k \in DOMAIN weights THEN weights[k] ELSE d

\* the objective expression: the three weighted action sums and the
\* penalty block, one term per entry of penalty_terms
Objective(weights, penalty_terms) ==
    [w_cancel |-> W(weights, "cancel", 10),
     w_swap |-> W(weights, "swap", 3),
     w_delay |-> W(weights, "delay", 3),
     penalty |-> [k \in DOMAIN penalty_terms |->
                    [var |-> penalty_terms[k].var,
                     cost |-> PenaltyCost(penalty_terms[k].priority)]]]

NoObjective == Objective([cancel |-> 0, swap |-> 0, delay |-> 0], <<>>)

BuildModel(flights, cdata, weights, max_delay_minutes, BIG_M) ==
    LET df == NormalizeFlightDf(flights)
        F == [k \in DOMAIN df |-> df[k].flight_id]
        m0 == [raised |-> FALSE,
               F |-> F,
               df |-> df,
               max_delay_minutes |-> max_delay_minutes,
               comps |-> {},
               cons |-> AllStructuralCons(df, F, 1, max_delay_minutes),
               penalty_terms |-> <<>>,
               objective |-> NoObjective]
        m1 == IF cdata.airport_restriction # <<>>
              THEN ApplyAirportCurfew(m0, cdata.airport_restriction, 1, BIG_M)
              ELSE m0
        m2 == IF cdata.airport_capacity # <<>>
              THEN ApplyHourlyCapacity(m1, cdata.airport_capacity, 1)
              ELSE m1
        m3 == IF m2.raised THEN m2
              ELSE IF cdata.quota.cancel.present \/ cdata.quota.swap.present
              THEN ApplyQuota(m2, cdata.quota)
              ELSE m2
    IN  IF IndexDuplicated(df) THEN [m0 EXCEPT !.raised = TRUE]
        ELSE IF m3.raised THEN m3
        ELSE IF \E k \in DOMAIN m3.penalty_terms : ~HasUpper(m3.penalty_terms[k].priority)
        THEN [m3 EXCEPT !.raised = TRUE]
        ELSE IF ~IsDict(weights) THEN [m3 EXCEPT !.raised = TRUE]
        ELSE [m3 EXCEPT !.objective = Objective(weights, m3.penalty_terms)]

----------------------------------------------------------------------------
(* The MILP's meaning: which assignments satisfy the emitted rows          *)

FlightSet(mm) == Range(mm.F)

TimeOf(a, c) ==
    IF c.time_var = "dep" THEN a.dep_time_of_day[c.f] ELSE a.arr_time_of_day[c.f]

\* the rows read with the curfew pair lacking its cancellation term
HoldsWithoutCancelTerm(c, a) ==
    CASE c.t = "excl" -> a.change_aircraft[c.f] + a.cancel_flight[c.f] <= 1
      [] c.t = "link" -> a.x[c.f] = 1 - a.cancel_flight[c.f]
      [] c.t = "gate" -> a.d[c.f] <= Tenths(c.max_delay) * a.x[c.f]
      [] c.t = "dep" -> Tenths(c.base_dep) + a.d[c.f] = a.dep_time_of_day[c.f]
      [] c.t = "arr" -> Tenths(c.base_dep + c.fdur) + a.d[c.f] = a.arr_time_of_day[c.f]
      [] c.t = "curfew_ub" ->
            TimeOf(a, c) <= Tenths(c.bound) + Tenths(c.M) * a.aux[c.y]
                              + (IF c.soft THEN Tenths(c.M) * a.aux[c.v] ELSE 0)
      [] c.t = "curfew_lb" ->
            TimeOf(a, c) >= Tenths(c.bound) - Tenths(c.M) * (1 - a.aux[c.y])
                              - (IF c.soft THEN Tenths(c.M) * a.aux[c.v] ELSE 0)
      [] c.t = "capacity" ->
            SumOver(c.flights, a.x) <= c.limit + (IF c.soft THEN a.aux[c.slack] ELSE 0)
      [] c.t = "quota" ->
            SumOver(DOMAIN a.x,
                    IF c.kind = "cancel" THEN a.cancel_flight ELSE a.change_aircraft)
                <= c.limit + (IF c.soft THEN a.aux[c.slack] ELSE 0)

\* assignment a satisfies row c of m.cons
Holds(c, a) ==
    CASE c.t = "excl" -> a.change_aircraft[c.f] + a.cancel_flight[c.f] <= 1
      [] c.t = "link" -> a.x[c.f] = 1 - a.cancel_flight[c.f]
      [] c.t = "gate" -> a.d[c.f] <= Tenths(c.max_delay) * a.x[c.f]
      [] c.t = "dep" -> Tenths(c.base_dep) + a.d[c.f] = a.dep_time_of_day[c.f]
      [] c.t = "arr" -> Tenths(c.base_dep + c.fdur) + a.d[c.f] = a.arr_time_of_day[c.f]
      [] c.t = "curfew_ub" ->
            TimeOf(a, c) <= Tenths(c.bound) + Tenths(c.M) * a.aux[c.y]
                              + Tenths(c.M) * a.cancel_flight[c.f]
                              + (IF c.soft THEN Tenths(c.M) * a.aux[c.v] ELSE 0)
      [] c.t = "curfew_lb" ->
            TimeOf(a, c) >= Tenths(c.bound) - Tenths(c.M) * (1 - a.aux[c.y])
                              - Tenths(c.M) * a.cancel_flight[c.f]
                              - (IF c.soft THEN Tenths(c.M) * a.aux[c.v] ELSE 0)
      [] c.t = "capacity" ->
            SumOver(c.flights, a.x) <= c.limit + (IF c.soft THEN a.aux[c.slack] ELSE 0)
      [] c.t = "quota" ->
            SumOver(DOMAIN a.x,
                    IF c.kind = "cancel" THEN a.cancel_flight ELSE a.change_aircraft)
                <= c.limit + (IF c.soft THEN a.aux[c.slack] ELSE 0)

IsStructural(c) == c.t \in {"excl", "link", "gate", "dep", "arr"}

\* values the solver is offered for d: 0, 0.1 and 0.7 minutes, the bound
\* and one step past the bound
DelayCands(mm) ==
    {0, 1, 7, Tenths(mm.max_delay_minutes), Tenths(mm.max_delay_minutes) + 1}

TimeCands(mm, f) ==
    LET row == Loc(mm.df, f)
    IN  {Tenths(row.target_dep_min_of_day) + d : d \in DelayCands(mm)}
        \cup {Tenths(row.target_dep_min_of_day + row.flight_duration_minutes) + d :
                d \in DelayCands(mm)}

\* a one-flight assignment, for evaluating the rows that mention f alone
Lift(f, r, dep, arr) ==
    [x |-> (f :> r.x), cancel_flight |-> (f :> r.cancel_flight),
     change_aircraft |-> (f :> r.change_aircraft), d |-> (f :> r.d),
     dep_time_of_day |-> (f :> dep), arr_time_of_day |-> (f :> arr), aux |-> <<>>]

\* the rows of kind t that build_model emitted for flight f
RowsOf(mm, f, kinds) ==
    {mm.cons[k] : k \in {j \in DOMAIN mm.cons :
                            mm.cons[j].t \in kinds /\ mm.cons[j].f = f}}

\* the values of (x, cancel, swap, d, dep, arr) of flight f that satisfy the
\* variable bounds and the structural rows of f; built variable by variable
FlightFeasible(mm, f) ==
    LET acts == {r \in [x : 0..1, cancel_flight : 0..1, change_aircraft : 0..1,
                        d : DelayCands(mm)] :
                    /\ 0 <= r.d /\ r.d <= Tenths(mm.max_delay_minutes)
                    /\ \A c \in RowsOf(mm, f, {"excl", "link", "gate"}) :
                          Holds(c, Lift(f, r, 0, 0))}
        deps(r) == {t \in TimeCands(mm, f) :
                    /\ 0 <= t /\ t <= Tenths(MINUTES_IN_TWO_DAYS - 1)
                    /\ \A c \in RowsOf(mm, f, {"dep"}) : Holds(c, Lift(f, r, t, 0))}
        arrs(r) == {t \in TimeCands(mm, f) :
                    /\ 0 <= t /\ t <= Tenths(MINUTES_IN_TWO_DAYS - 1)
                    /\ \A c \in RowsOf(mm, f, {"arr"}) : Holds(c, Lift(f, r, 0, t))}
    IN  UNION {{[x |-> r.x, cancel_flight |-> r.cancel_flight,
                 change_aircraft |-> r.change_aircraft, d |-> r.d,
                 dep_time_of_day |-> dt, arr_time_of_day |-> at] :
                    dt \in deps(r), at \in arrs(r)} : r \in acts}

MkVal(g, h) ==
    [x |-> [f \in DOMAIN g |-> g[f].x],
     cancel_flight |-> [f \in DOMAIN g |-> g[f].cancel_flight],
     change_aircraft |-> [f \in DOMAIN g |-> g[f].change_aircraft],
     d |-> [f \in DOMAIN g |-> g[f].d],
     dep_time_of_day |-> [f \in DOMAIN g |-> g[f].dep_time_of_day],
     arr_time_of_day |-> [f \in DOMAIN g |-> g[f].arr_time_of_day],
     aux |-> h]

\* the values offered for the auxiliary variables: binaries in {0, 1},
\* slacks in 0..MaxOverage
AuxAssignments(mm) ==
    {h \in [mm.comps -> 0..MaxOverage] :
        \A n \in mm.comps : IsBinaryName(n) => h[n] <= 1}

\* every assignment, over the offered values, that satisfies all rows of
\* m.cons and all variable bounds
FeasibleSet(mm) ==
    UNION {
        {a \in {MkVal(g, h) :
                    g \in {g \in [FlightSet(mm) -> UNION Range(ff)] :
                              \A f \in FlightSet(mm) : g[f] \in ff[f]},
                    h \in AuxAssignments(mm)} :
            \A c \in rows : Holds(c, a)} :
        ff \in {[f \in FlightSet(mm) |-> FlightFeasible(mm, f)]},
        rows \in {{mm.cons[k] : k \in {j \in DOMAIN mm.cons :
                                          ~IsStructural(mm.cons[j])}}}}

\* the objective with the penalty block scaled by the cancel weight
ObjectiveValueScaledPenalty(mm, a) ==
    LET F == FlightSet(mm)
        cost_cancel == SumOver(F, [f \in F |-> a.cancel_flight[f] * Loc(mm.df, f).revenue])
        cost_swap == SumOver(F, [f \in F |-> a.change_aircraft[f] * C_SWAP])
        cost_delay == SumOver(F, [f \in F |-> a.d[f] * C_DELAY_PER_MIN])
        pen == mm.objective.penalty
        cost_penalty == SumOver(DOMAIN pen, [k \in DOMAIN pen |-> a.aux[pen[k].var] * pen[k].cost])
    IN  mm.objective.w_cancel * cost_cancel * 10
        + mm.objective.w_swap * cost_swap * 10
        + mm.objective.w_delay * cost_delay
        + mm.objective.w_cancel * cost_penalty * 10

\* the objective without its penalty block
ObjectiveValueNoPenalty(mm, a) ==
    LET F == FlightSet(mm)
        cost_cancel == SumOver(F, [f \in F |-> a.cancel_flight[f] * Loc(mm.df, f).revenue])
        cost_swap == SumOver(F, [f \in F |-> a.change_aircraft[f] * C_SWAP])
        cost_delay == SumOver(F, [f \in F |-> a.d[f] * C_DELAY_PER_MIN])
    IN  mm.objective.w_cancel * cost_cancel * 10
        + mm.objective.w_swap * cost_swap * 10
        + mm.objective.w_delay * cost_delay

\* the objective without the cost of aircraft changes
ObjectiveValueNoSwapCost(mm, a) ==
    LET F == FlightSet(mm)
        cost_cancel == SumOver(F, [f \in F |-> a.cancel_flight[f] * Loc(mm.df, f).revenue])
        cost_delay == SumOver(F, [f \in F |-> a.d[f] * C_DELAY_PER_MIN])
        pen == mm.objective.penalty
        cost_penalty == SumOver(DOMAIN pen, [k \in DOMAIN pen |-> a.aux[pen[k].var] * pen[k].cost])
    IN  mm.objective.w_cancel * cost_cancel * 10
        + mm.objective.w_delay * cost_delay
        + cost_penalty * 100

\* value of m.objective at a, in hundredths
ObjectiveValue(mm, a) ==
    LET F == FlightSet(mm)
        cost_cancel == SumOver(F, [f \in F |-> a.cancel_flight[f] * Loc(mm.df, f).revenue])
        cost_swap == SumOver(F, [f \in F |-> a.change_aircraft[f] * C_SWAP])
        cost_delay == SumOver(F, [f \in F |-> a.d[f] * C_DELAY_PER_MIN])
        pen == mm.objective.penalty
        cost_penalty == SumOver(DOMAIN pen, [k \in DOMAIN pen |-> a.aux[pen[k].var] * pen[k].cost])
    IN  mm.objective.w_cancel * cost_cancel * 10
        + mm.objective.w_swap * cost_swap * 10
        + mm.objective.w_delay * cost_delay
        + cost_penalty * 100

\* the assignments of FS with the greatest objective value
OptimalSetGreatest(mm, FS) ==
    UNION {{a \in FS : ObjectiveValue(mm, a) = best} :
            best \in UNION {{v \in values : \A u \in values : v >= u} :
                              values \in {{ObjectiveValue(mm, a) : a \in FS}}}}

\* the assignments of FS with the least objective value
OptimalSet(mm, FS) ==
    UNION {{a \in FS : ObjectiveValue(mm, a) = best} :
            best \in UNION {{v \in values : \A u \in values : v <= u} :
                              values \in {{ObjectiveValue(mm, a) : a \in FS}}}}

----------------------------------------------------------------------------
(* get_optimization_results                                                *)

\* int(round(delay_val)): Python rounds halves to the even neighbour
Round(d) ==
    LET q == d \div 10
        r == d % 10
    IN  IF r < 5 THEN q
        ELSE IF r > 5 THEN q + 1
        ELSE IF q % 2 = 0 THEN q ELSE q + 1

NoTable == [none |-> TRUE, rows |-> <<>>]

\* the row with the delay cut to whole minutes instead of rounded
ResultRowTruncated(row, f, a) ==
    LET is_cancelled == 2 * a.cancel_flight[f] > 1
        is_swapped == 2 * a.change_aircraft[f] > 1
        delay_val == a.d[f]
        action == IF is_cancelled THEN "cancel"
                  ELSE IF is_swapped THEN "swap"
                  ELSE IF delay_val > 1 THEN "delay"
                  ELSE "normal"
        status == IF is_cancelled THEN "cancelled" ELSE "operated"
        delay == IF is_cancelled THEN 0 ELSE delay_val \div 10
    IN  [flight_number |-> row.flight_number,
         target_departure_time |-> row.target_departure_time,
         adjustment_action |-> action,
         status |-> status,
         additional_delay_minutes |-> delay,
         adjusted_departure_time |->
            IF status = "operated"
            THEN <<row.target_departure_time + delay>>
            ELSE <<>>]

\* The labels are written by their meaning: the code's strings for
\* adjustment_action are the Chinese for "cancel flight", "change
\* aircraft", "change time", "operate normally", and for status the Chinese
\* for "cancelled" and "operated".
\* the row built for flight f (lines 427-445); NaT is the empty tuple
ResultRow(row, f, a) ==
    LET is_cancelled == 2 * a.cancel_flight[f] > 1
        is_swapped == 2 * a.change_aircraft[f] > 1
        delay_val == a.d[f]
        action == IF is_cancelled THEN "cancel"
                  ELSE IF is_swapped THEN "swap"
                  ELSE IF delay_val > 1 THEN "delay"
                  ELSE "normal"
        status == IF is_cancelled THEN "cancelled" ELSE "operated"
        delay == IF is_cancelled THEN 0 ELSE Round(delay_val)
    IN  [flight_number |-> row.flight_number,
         target_departure_time |-> row.target_departure_time,
         adjustment_action |-> action,
         status |-> status,
         additional_delay_minutes |-> delay,
         adjusted_departure_time |->
            IF status = "operated"
            THEN <<row.target_departure_time + delay>>
            ELSE <<>>]

\* extraction that accepts a proven optimum only
GetOptimizationResultsOptimalOnly(mm, flights, res, a) ==
    IF res.status # "ok" \/ res.termination_condition # "optimal"
    THEN NoTable
    ELSE LET df == NormalizeFlightDf(flights)
         IN  [none |-> FALSE, rows |-> [k \in DOMAIN df |-> ResultRow(df[k], mm.F[k], a)]]

GetOptimizationResults(mm, flights, res, a) ==
    IF res.status # "ok" \/ res.termination_condition \notin {"optimal", "feasible"}
    THEN NoTable
    ELSE LET df == NormalizeFlightDf(flights)
         IN  [none |-> FALSE, rows |-> [k \in DOMAIN df |-> ResultRow(df[k], mm.F[k], a)]]

----------------------------------------------------------------------------
(* Inputs                                                                  *)

\* a row scheduled at t with its target departure at the schedule time
Flight(no, dep, arr, t, dur, rev) ==
    [flight_number |-> no, departure_airport |-> dep, arrival_airport |-> arr,
     STOT |-> t, target_departure_time |-> t, flight_duration_minutes |-> dur,
     revenue |-> rev]

\* Flights the tables are drawn from; times are minutes after 2025-08-16
\* 00:00, the red-eye CA509 leaves at 03:30 on the following day.
Catalogue ==
    << Flight("CA101", "PEK", "SHA", 8 * 60 + 10, 120, 30000),
       Flight("CA203", "PEK", "CAN", 8 * 60 + 25, 120, 30000),
       Flight("CA509", "PEK", "SHA", MINUTES_IN_DAY + 3 * 60 + 30, 90, 20000) >>

RECURSIVE SubTable(_, _)
\* the rows of the catalogue whose numbers are in S, in catalogue order
SubTable(S, k) ==
    IF k > Len(Catalogue) THEN <<>>
    ELSE (IF k \in S THEN <<Catalogue[k]>> ELSE <<>>) \o SubTable(S, k + 1)

FlightTables ==
    {SubTable(S, 1) : S \in {T \in SUBSET DOMAIN Catalogue :
                                T # {} /\ Cardinality(T) <= MaxFlights}}

CurfewRule(ap, type, st, ed, priority) ==
    [AIRPORT_CODE |-> ap, RESTRICTION_TYPE |-> type, START_TIME_OF_DAY |-> st,
     END_TIME_OF_DAY |-> ed, PRIORITY |-> priority]

Priorities == {"MUST", "HIGH", "MEDIUM", "LOW"}

\* overnight curfews 23:00 -> 06:00, enforced by the engine
OvernightRules ==
    {CurfewRule("PEK", "AIRPORT_CURFEW", Time(23, 0), Time(6, 0), p) :
        p \in {"MUST", "HIGH"}}
    \cup {CurfewRule("SHA", "AIRPORT_CURFEW", Time(23, 0), Time(6, 0), p) :
            p \in {"MUST", "MEDIUM", "LOW"}}

\* rows the engine reads and drops: a same-day window, another restriction
\* type, a start time without a colon
DroppedRules ==
    {CurfewRule("PEK", "AIRPORT_CURFEW", Time(1, 0), Time(5, 0), "MUST"),
     CurfewRule("PEK", "RUNWAY_MAINTENANCE", Time(23, 0), Time(6, 0), "MUST"),
     CurfewRule("PEK", "AIRPORT_CURFEW", NoColonTime, Time(6, 0), "MUST")}

CurfewTables ==
    {<<r>> : r \in OvernightRules \cup DroppedRules}
    \cup {<<r, CurfewRule("PEK", "AIRPORT_CURFEW", Time(23, 0), Time(6, 0), "MUST")>> :
            r \in OvernightRules \cup DroppedRules}

Details(limit, priority) ==
    [is_dict |-> TRUE, has_limit |-> TRUE, limit_numeric |-> TRUE, limit |-> limit,
     priority |-> priority]
RawLimit(limit) ==
    [is_dict |-> FALSE, has_limit |-> TRUE, limit_numeric |-> TRUE, limit |-> limit,
     priority |-> ""]
TextLimit ==
    [is_dict |-> TRUE, has_limit |-> TRUE, limit_numeric |-> FALSE, limit |-> 0,
     priority |-> "MUST"]

CapEntry(ap, win_key, details) == [ap |-> ap, win_key |-> win_key, details |-> details]

\* airport_capacity, flattened in iteration order
CapacityMaps ==
    {<<CapEntry("PEK", RangeKey(Time(8, 0), Time(9, 0)), d)>> :
        d \in {Details(1, p) : p \in Priorities} \cup {RawLimit(1), TextLimit}}
    \cup {<<CapEntry("PEK", k, Details(1, "MUST"))>> :
            k \in {RangeKey(Time(8, 0), Time(8, 30)), PlusKey(Time(8, 0), 60),
                   PlusKey(Time(8, 30), 60), OtherKey}}

QuotaOf(max, priority) == [present |-> TRUE, has_max |-> TRUE, max |-> max, priority |-> priority]
NoQuotaEntry == [present |-> FALSE, has_max |-> FALSE, max |-> 0, priority |-> ""]
NoQuota == [cancel |-> NoQuotaEntry, swap |-> NoQuotaEntry]

Quotas ==
    {[cancel |-> q, swap |-> NoQuotaEntry] :
        q \in {QuotaOf(0, "MUST"), QuotaOf(1, "MUST"), QuotaOf(0, "HIGH"),
               QuotaOf(1, "LOW")}}
    \cup {[cancel |-> NoQuotaEntry, swap |-> q] :
            q \in {QuotaOf(0, "MUST"), QuotaOf(1, "MEDIUM")}}
    \cup {[cancel |-> QuotaOf(1, "MUST"), swap |-> QuotaOf(0, "MUST")]}

Bundle(res, cap, quota) ==
    [airport_restriction |-> res, airport_capacity |-> cap, quota |-> quota]

\* the (soft curfew row, flight touching its airport) pairs of an input;
\* each pair adds two binaries to the model
SoftPairs(flights, rows) ==
    {<<k, j>> \in (DOMAIN rows) \X (DOMAIN flights) :
        /\ Column(rows[k], "PRIORITY", "HIGH") # "MUST"
        /\ rows[k].AIRPORT_CODE \in {flights[j].departure_airport,
                                      flights[j].arrival_airport}}

\* constraint bundles: no rule at all, or the rules of one family
Bundles ==
    {Bundle(<<>>, <<>>, NoQuota)}
    \cup {Bundle(r, <<>>, NoQuota) : r \in CurfewTables}
    \cup {Bundle(<<>>, c, NoQuota) : c \in CapacityMaps}
    \cup {Bundle(<<>>, <<>>, q) : q \in Quotas}

\* weight vectors in tenths; a key may be missing
DefaultWeights == [cancel |-> 10, delay |-> 3, swap |-> 3]
HalfCancel == [cancel |-> 5, swap |-> 0]
LowCancel == [cancel |-> 1, delay |-> 3, swap |-> 3]

\* the inputs of the batches of several weight vectors: one flight, and a
\* bundle that is empty, or holds one soft rule of a family, or cannot be
\* satisfied
BatchTables == {<<Catalogue[1]>>}

BatchBundles ==
    {Bundle(<<>>, <<>>, NoQuota),
     Bundle(<<>>, <<>>, [cancel |-> QuotaOf(0, "HIGH"), swap |-> NoQuotaEntry]),
     Bundle(<<>>, <<CapEntry("PEK", RangeKey(Time(8, 0), Time(9, 0)), Details(0, "LOW"))>>,
            NoQuota),
     Bundle(<<CurfewRule("SHA", "AIRPORT_CURFEW", Time(23, 0), Time(6, 0), "MEDIUM")>>,
            <<>>, NoQuota),
     Bundle(<<>>, <<CapEntry("PEK", RangeKey(Time(8, 0), Time(9, 0)), Details(0, "MUST"))>>,
            [cancel |-> QuotaOf(0, "MUST"), swap |-> NoQuotaEntry])}

\* The demonstration table of the module's __main__ block: three morning
\* departures PEK -> SHA, default duration and revenue.
S1Flights ==
    << Flight("CA101", "PEK", "SHA", 8 * 60 + 10, 120, 30000),
       Flight("CA203", "PEK", "SHA", 8 * 60 + 25, 120, 30000),
       Flight("CA305", "PEK", "SHA", 8 * 60 + 55, 120, 30000) >>

CdmRow(no, dep, arr, sched, edep, earr) ==
    [flight_number |-> no, departure_airport |-> dep, arrival_airport |-> arr,
     scheduled_departure_time |-> sched, expected_departure_time |-> edep,
     expected_arrival_time |-> earr]

\* a CDM file of three rows: a two-hour leg, a row whose expected landing
\* lies before its expected take-off, and a row without a landing time
CdmRows ==
    << CdmRow("CA101", "PEK", "SHA", At(8 * 60 + 10), At(8 * 60 + 10), At(10 * 60 + 10)),
       CdmRow("CA203", "PEK", "SHA", At(8 * 60 + 25), At(9 * 60), At(8 * 60 + 40)),
       CdmRow("CA305", "PEK", "SHA", At(8 * 60 + 55), At(8 * 60 + 55), NaT) >>

\* one flight scheduled at 08:10 whose target departure is 14:30, 380
\* minutes behind schedule
LateFlights ==
    << [flight_number |-> "CA101", departure_airport |-> "PEK", arrival_airport |-> "SHA",
        STOT |-> 8 * 60 + 10, target_departure_time |-> 14 * 60 + 30,
        flight_duration_minutes |-> 120, revenue |-> 30000] >>

\* a table of the required columns only: number, airports and STOT
BareFlights ==
    << [flight_number |-> "CA101", departure_airport |-> "PEK", arrival_airport |-> "SHA",
        STOT |-> 8 * 60 + 10] >>

\* two legs flown under one flight number, no flight_id column
SameNumberFlights ==
    << Flight("CA101", "PEK", "SHA", 8 * 60 + 10, 120, 30000),
       Flight("CA101", "SHA", "PEK", 14 * 60 + 10, 120, 30000) >>

\* the tables of the scenario runs: the demonstration table, the two legs
\* handed to batch_solve as they are, the two legs as the API handler
\* hands them over, the table loaded from the CDM file, the flight far
\* behind its schedule, and the table of the required columns only
ScenarioTables ==
    {S1Flights, SameNumberFlights, ApiFlightTable(SameNumberFlights),
     LoadCdmData(CdmRows), LateFlights, BareFlights}

\* a raw (non-dict) capacity value that int() cannot read
RawText ==
    [is_dict |-> FALSE, has_limit |-> TRUE, limit_numeric |-> FALSE, limit |-> 0,
     priority |-> ""]

\* capacity of 1 on PEK '08:00-09:00' at priority p
HourCap(p) == CapEntry("PEK", RangeKey(Time(8, 0), Time(9, 0)), Details(1, p))

NoCancelQuota == [cancel |-> QuotaOf(0, "MUST"), swap |-> NoQuotaEntry]

\* bundles over the demonstration table: none; two same-day curfews; a hard
\* and a soft capacity squeeze; the squeeze with cancellation forbidden; the
\* squeeze next to an unreadable capacity value; a hard capacity of 2
S1Bundle == Bundle(<<>>, <<>>, NoQuota)
S2Bundle ==
    Bundle(<<CurfewRule("PEK", "AIRPORT_CURFEW", Time(0, 0), Time(5, 0), "MUST"),
             CurfewRule("SHA", "AIRPORT_CURFEW", Time(7, 0), Time(10, 0), "MUST")>>,
           <<>>, NoQuota)
S3Bundle == Bundle(<<>>, <<HourCap("MUST")>>, NoQuota)
S4Bundle == Bundle(<<>>, <<HourCap("HIGH")>>, NoQuota)
S5Bundle == Bundle(<<>>, <<HourCap("MUST")>>, NoCancelQuota)
UnreadableLimitBundle ==
    Bundle(<<>>,
           <<HourCap("MUST"),
             CapEntry("PEK", RangeKey(Time(9, 0), Time(10, 0)), RawText)>>,
           NoQuota)

\* a row of another restriction type, an overnight curfew and a curfew whose
\* start equals its end
MixedCurfewBundle ==
    Bundle(<<CurfewRule("PEK", "RUNWAY_MAINTENANCE", Time(23, 0), Time(6, 0), "MUST"),
             CurfewRule("SHA", "AIRPORT_CURFEW", Time(23, 0), Time(6, 0), "MUST"),
             CurfewRule("PEK", "AIRPORT_CURFEW", Time(6, 0), Time(6, 0), "MUST")>>,
           <<>>, NoQuota)

\* a curfew table without a PRIORITY column
UnstatedCurfewBundle ==
    Bundle(<<[AIRPORT_CODE |-> "SHA", RESTRICTION_TYPE |-> "AIRPORT_CURFEW",
              START_TIME_OF_DAY |-> Time(23, 0), END_TIME_OF_DAY |-> Time(6, 0)]>>,
           <<>>, NoQuota)

\* a curfew table whose first row states MUST and whose second row states
\* no priority: its PRIORITY cell is nan
NaNPriorityBundle ==
    Bundle(<<CurfewRule("PEK", "AIRPORT_CURFEW", Time(23, 0), Time(6, 0), "MUST"),
             CurfewRule("SHA", "AIRPORT_CURFEW", Time(23, 0), Time(6, 0), NaN)>>,
           <<>>, NoQuota)

\* a capacity dict without 'priority' and a cancel quota without 'priority'
UnstatedCapQuotaBundle ==
    Bundle(<<>>,
           <<CapEntry("PEK", RangeKey(Time(8, 0), Time(9, 0)), Details(1, ""))>>,
           [cancel |-> QuotaOf(0, ""), swap |-> NoQuotaEntry])

\* a capacity given as a raw integer
RawCapBundle ==
    Bundle(<<>>, <<CapEntry("PEK", RangeKey(Time(8, 0), Time(9, 0)), RawLimit(0))>>,
           NoQuota)

HourCapTwoBundle ==
    Bundle(<<>>, <<CapEntry("PEK", PlusKey(Time(8, 0), 60), Details(2, "MUST"))>>, NoQuota)

ScenarioBundles ==
    {S1Bundle, S2Bundle, S3Bundle, S4Bundle, S5Bundle, UnreadableLimitBundle,
     HourCapTwoBundle, MixedCurfewBundle, UnstatedCurfewBundle, NaNPriorityBundle,
     UnstatedCapQuotaBundle, RawCapBundle}

RECURSIVE SeqsUpTo(_, _)
\* the sequences over S of length 1..n
SeqsUpTo(S, n) ==
    IF n = 0 THEN {}
    ELSE {<<x>> : x \in S}
         \cup {Append(q, x) : q \in SeqsUpTo(S, n - 1), x \in S}

WeightLists == SeqsUpTo({DefaultWeights, HalfCancel, LowCancel, NotADict}, MaxWeightSets)

----------------------------------------------------------------------------
(* batch_solve                                                             *)

NoModel ==
    [raised |-> FALSE, F |-> <<>>, df |-> <<>>, max_delay_minutes |-> 0, comps |-> {},
     cons |-> <<>>, penalty_terms |-> <<>>, objective |-> NoObjective]
NoVal ==
    [x |-> <<>>, cancel_flight |-> <<>>, change_aircraft |-> <<>>, d |-> <<>>,
     dep_time_of_day |-> <<>>, arr_time_of_day |-> <<>>, aux |-> <<>>]
NoResult == [status |-> "", termination_condition |-> ""]

Failed == [result |-> FALSE, table |-> NoTable]

TypeOK ==
    /\ pc \in {"build", "solve", "extract", "done"}
    /\ i \in 1..(Len(weight_sets) + 1)
    /\ Len(solutions) = i - 1

InitWith(tables, bundles, lists) ==
    /\ flights_df \in tables
    /\ constraint_data \in bundles
    /\ Cardinality(SoftPairs(flights_df, constraint_data.airport_restriction))
            <= MaxSoftPairs
    /\ weight_sets \in lists
    /\ pc = "build"
    /\ i = 1
    /\ m = NoModel
    /\ result = NoResult
    /\ val = NoVal
    /\ solutions = <<>>

\* a batch of one weight vector over every table and every bundle
Init == InitWith(FlightTables, Bundles, {<<DefaultWeights>>})

\* batches of up to MaxWeightSets weight vectors
BatchInit == InitWith(BatchTables, BatchBundles, WeightLists)

\* the scenario tables under each scenario bundle, one weight vector
ScenarioInit == InitWith(ScenarioTables, ScenarioBundles, {<<DefaultWeights>>})

\* "for i, weights in enumerate(weight_sets)": on to the next vector.  The
\* loop body's locals m, result and the values loaded into m are dead once
\* the outcome is appended (the next iteration rebinds them before any
\* use), so they are dropped here.
NextIteration ==
    /\ i' = i + 1
    /\ pc' = IF i + 1 > Len(weight_sets) THEN "done" ELSE "build"
    /\ m' = NoModel
    /\ result' = NoResult
    /\ val' = NoVal

\* every run built from the first weight vector of the list
BuiltModelFirstWeights ==
    BuildModel(flights_df, constraint_data, weight_sets[1], severe_delay_threshold, big_m)

\* the model solve builds: build_model with its own defaults
SolveModel(weights) ==
    BuildModel(flights_df, constraint_data, weights, default_max_delay_minutes,
               default_big_m)

BuiltModel ==
    BuildModel(flights_df, constraint_data, weight_sets[i], severe_delay_threshold, big_m)

\* build_model returns
Build ==
    /\ pc = "build"
    /\ ~BuiltModel.raised
    /\ m' = BuiltModel
    /\ pc' = "solve"
    /\ UNCHANGED <<flights_df, constraint_data, weight_sets, i, result, val, solutions>>

\* an exception of build_model that leaves the loop
BuildRaisesAborts ==
    /\ pc = "build"
    /\ BuiltModel.raised
    /\ pc' = "done"
    /\ i' = Len(weight_sets) + 1
    /\ solutions' = [k \in 1..Len(weight_sets) |->
                        IF k \in DOMAIN solutions THEN solutions[k] ELSE Failed]
    /\ m' = NoModel /\ result' = NoResult /\ val' = NoVal
    /\ UNCHANGED <<flights_df, constraint_data, weight_sets>>

\* build_model raises: the except branch records a failed outcome
BuildRaises ==
    /\ pc = "build"
    /\ BuiltModel.raised
    /\ solutions' = Append(solutions, Failed)
    /\ NextIteration
    /\ UNCHANGED <<flights_df, constraint_data, weight_sets>>

\* solver.solve(m) returns.  The solver is external: it proves optimality,
\* or stops at its time limit with an incumbent, or proves that no
\* assignment satisfies the rows, or stops without any solution (limit
\* reached, internal error).
SolverSolve ==
    /\ pc = "solve"
    /\ \E FS \in {FeasibleSet(m)} :
          \/ /\ val' \in OptimalSet(m, FS)
             /\ result' = [status |-> "ok", termination_condition |-> "optimal"]
          \/ /\ val' \in FS
             /\ result' = [status |-> "ok", termination_condition |-> "feasible"]
          \/ /\ FS = {}
             /\ val' = val
             /\ result' = [status |-> "warning", termination_condition |-> "infeasible"]
          \/ /\ val' = val
             /\ result' \in {[status |-> "aborted", termination_condition |-> "maxTimeLimit"],
                             [status |-> "error", termination_condition |-> "error"]}
    /\ pc' = "extract"
    /\ UNCHANGED <<flights_df, constraint_data, weight_sets, i, m, solutions>>

\* SolverFactory or solver.solve raises: the except branch
SolveRaises ==
    /\ pc = "solve"
    /\ solutions' = Append(solutions, Failed)
    /\ NextIteration
    /\ UNCHANGED <<flights_df, constraint_data, weight_sets>>

\* batch_solve's check of the soft constraints: the variables whose name
\* holds 'overage' or 'violation' and whose value exceeds 0.001
SoftConstraintCheck(mm, a) ==
    {n \in mm.comps :
        /\ n.base \in {"capacity_overage", "quota_overage_cancel", "quota_overage_swap",
                       "curfew_soft_violation"}
        /\ n \in DOMAIN a.aux
        /\ a.aux[n] * 1000 > 1}

\* get_optimization_results and the append of the outcome
Extract ==
    /\ pc = "extract"
    /\ LET solution_df == GetOptimizationResults(m, flights_df, result, val)
       IN  solutions' = Append(solutions, [result |-> ~solution_df.none,
                                           table |-> solution_df])
    /\ NextIteration
    /\ UNCHANGED <<flights_df, constraint_data, weight_sets>>

Next ==
    \/ Build
    \/ BuildRaises
    \/ SolverSolve
    \/ SolveRaises
    \/ Extract

Spec == Init /\ [][Next]_vars

BatchSpec == BatchInit /\ [][Next]_vars

ScenarioSpec == ScenarioInit /\ [][Next]_vars

----------------------------------------------------------------------------
(* Properties                                                              *)

\* the solver returned with values loaded into m
Solved ==
    /\ pc = "extract"
    /\ result.status = "ok"
    /\ result.termination_condition \in {"optimal", "feasible"}

\* the normalized row of flight number j of the caller's table
Row(j) == NormalizeRow(flights_df[j])

\* minutes of day of a well-formed 'HH:MM'
MinutesOfDay(ts) == ts.hh * 60 + ts.mm
WellFormed(ts) == ts.colon /\ ts.numeric

\* t (in tenths of a minute, two-day clock), read as a time of day, lies in
\* the overnight interval from st through midnight to ed
InOvernightInterval(t, st, ed) ==
    LET tod == t % Tenths(MINUTES_IN_DAY)
    IN  tod >= Tenths(st) \/ tod <= Tenths(ed)

\* C1: in every feasible solution, an operated flight that departs from
\* (resp. arrives at) the airport of a MUST overnight AIRPORT_CURFEW rule has
\* its departure (resp. arrival) time of day outside the rule's interval.
C1_OperatedOutsideCurfew ==
    Solved =>
        \A k \in DOMAIN constraint_data.airport_restriction :
            LET r == constraint_data.airport_restriction[k]
            IN  ( /\ r.RESTRICTION_TYPE = "AIRPORT_CURFEW"
                  /\ r.PRIORITY = "MUST"
                  /\ WellFormed(r.START_TIME_OF_DAY) /\ WellFormed(r.END_TIME_OF_DAY)
                  /\ MinutesOfDay(r.START_TIME_OF_DAY) > MinutesOfDay(r.END_TIME_OF_DAY) )
                => \A j \in DOMAIN flights_df :
                      LET f == Row(j).flight_id
                          st == MinutesOfDay(r.START_TIME_OF_DAY)
                          ed == MinutesOfDay(r.END_TIME_OF_DAY)
                      IN  val.x[f] = 1 =>
                            /\ Row(j).departure_airport = r.AIRPORT_CODE
                                  => ~InOvernightInterval(val.dep_time_of_day[f], st, ed)
                            /\ ( /\ Row(j).arrival_airport = r.AIRPORT_CODE
                                 /\ Row(j).departure_airport # r.AIRPORT_CODE )
                                  => ~InOvernightInterval(val.arr_time_of_day[f], st, ed)

\* the window [start, end) a key states, hours and minutes read
StatedWindow(win_key) ==
    IF win_key.syntax = "range"
    THEN [start |-> MinutesOfDay(win_key.s), end |-> MinutesOfDay(win_key.e)]
    ELSE [start |-> MinutesOfDay(win_key.s), end |-> MinutesOfDay(win_key.s) + win_key.dur]

\* C2: for every MUST hourly-capacity rule whose key parses, at most limit
\* operated flights depart from its airport with target_dep_min_of_day in
\* the window the key states (hours and minutes).
C2_CapacityOverStatedWindow ==
    Solved =>
        \A k \in DOMAIN constraint_data.airport_capacity :
            LET e == constraint_data.airport_capacity[k]
                w == StatedWindow(e.win_key)
            IN  ( /\ e.details.is_dict /\ e.details.priority = "MUST"
                  /\ e.details.limit_numeric
                  /\ e.win_key.syntax \in {"range", "plus"}
                  /\ WellFormed(e.win_key.s) /\ WellFormed(e.win_key.e) )
                => Cardinality({j \in DOMAIN flights_df :
                                  /\ Row(j).departure_airport = e.ap
                                  /\ w.start <= Row(j).target_dep_min_of_day
                                  /\ Row(j).target_dep_min_of_day < w.end
                                  /\ val.x[Row(j).flight_id] = 1})
                      <= e.details.limit

Count(S, g) == Cardinality({f \in S : g[f] = 1})

\* C3: in every feasible solution the number of cancelled flights is at most
\* a MUST cancel cap and the number of swapped flights at most a MUST swap
\* cap.
C3_MustQuotaCaps ==
    Solved =>
        /\ ( /\ constraint_data.quota.cancel.present
             /\ constraint_data.quota.cancel.has_max
             /\ constraint_data.quota.cancel.priority = "MUST" )
            => Count(DOMAIN val.cancel_flight, val.cancel_flight)
                  <= constraint_data.quota.cancel.max
        /\ ( /\ constraint_data.quota.swap.present
             /\ constraint_data.quota.swap.has_max
             /\ constraint_data.quota.swap.priority = "MUST" )
            => Count(DOMAIN val.change_aircraft, val.change_aircraft)
                  <= constraint_data.quota.swap.max

\* a feasible solution that uses a MUST cancel cap of 1 in full while another
\* flight operates
C3_Witness ==
    /\ Solved
    /\ constraint_data.quota.cancel.present
    /\ constraint_data.quota.cancel.priority = "MUST"
    /\ constraint_data.quota.cancel.max = 1
    /\ Count(DOMAIN val.cancel_flight, val.cancel_flight) = 1
    /\ Cardinality(DOMAIN val.x) = 2

\* the step from here records a failed outcome at position i and goes on to
\* weight vector i + 1, or ends the batch after the last one
FailedAndContinues ==
    /\ solutions' = Append(solutions, Failed)
    /\ Len(solutions') = i
    /\ i' = i + 1
    /\ pc' = IF i < Len(weight_sets) THEN "build" ELSE "done"

\* C4: batch_solve over N weight vectors returns N outcomes, the i-th from
\* the i-th vector; a run that raises while building, raises in the solver
\* or ends in a non-success termination leaves a failed outcome at its
\* position, and the next vector is still built and solved.
C4_BatchNeverAborts ==
    [][ /\ (pc = "build" /\ BuiltModel.raised) => FailedAndContinues
        /\ (pc = "build" /\ ~BuiltModel.raised) =>
              /\ Len(solutions) = i - 1
              /\ m' = BuildModel(flights_df, constraint_data, weight_sets[i],
                                 severe_delay_threshold, big_m)
              /\ pc' = "solve" /\ i' = i /\ solutions' = solutions
        /\ (pc = "solve" /\ pc' # "extract") => FailedAndContinues
        /\ (pc = "solve" /\ pc' = "extract") => (i' = i /\ solutions' = solutions)
        /\ (pc = "extract" /\ ~Solved) => FailedAndContinues
        /\ (pc = "extract" /\ Solved) =>
              /\ Len(solutions') = i
              /\ \A k \in DOMAIN solutions : solutions'[k] = solutions[k]
              /\ solutions'[i].result
              /\ i' = i + 1
              /\ pc' = IF i < Len(weight_sets) THEN "build" ELSE "done"
        /\ pc' = "done" => Len(solutions') = Len(weight_sets)
        /\ weight_sets' = weight_sets
      ]_vars

\* a batch of two vectors whose first run raised in build_model and whose
\* second run was solved
C4_Witness ==
    /\ pc = "done"
    /\ Len(weight_sets) = 2
    /\ ~IsDict(weight_sets[1])
    /\ solutions[1] = Failed
    /\ solutions[2].result

\* the cost PENALTY_p of a soft priority
PenaltyOf(p) ==
    CASE p = "HIGH" -> PENALTY_HIGH
      [] p = "MEDIUM" -> PENALTY_MEDIUM
      [] p = "LOW" -> PENALTY_LOW

\* the slack variables of the soft constraints
SlackNames ==
    {n \in DOMAIN val.aux :
        n.base \in {"curfew_soft_violation", "capacity_overage",
                    "quota_overage_cancel", "quota_overage_swap"}}

\* the priority stated by the input rule that slack n belongs to
SlackPriority(n) ==
    CASE n.base = "curfew_soft_violation" ->
            (CHOOSE r \in Range(constraint_data.airport_restriction) :
                r.AIRPORT_CODE = n.ap /\ r.PRIORITY # "MUST").PRIORITY
      [] n.base = "capacity_overage" ->
            (CHOOSE e \in Range(constraint_data.airport_capacity) :
                e.ap = n.ap /\ e.win_key = n.key).details.priority
      [] n.base = "quota_overage_cancel" -> constraint_data.quota.cancel.priority
      [] n.base = "quota_overage_swap" -> constraint_data.quota.swap.priority

\* the weight of action k in vector w, in tenths (an absent key takes
\* build_model's default)
WeightOf(w, k) ==
    IF k \in DOMAIN w THEN w[k] ELSE IF k = "cancel" THEN 10 ELSE 3

\* C5: the minimized objective is w_cancel * sum(cancel * revenue) + w_swap *
\* sum(swap * C_SWAP) + w_delay * sum(d * C_DELAY_PER_MIN) + sum(PENALTY_p *
\* slack); the weights multiply the three action terms only, so the penalty
\* block of an assignment is the same under every weight vector.
C5_ObjectiveShape ==
    Solved =>
        LET w == weight_sets[i]
            F == DOMAIN flights_df
            f(j) == Row(j).flight_id
            cancelled == SumOver(F, [j \in F |-> val.cancel_flight[f(j)] * Row(j).revenue])
            swapped == SumOver(F, [j \in F |-> val.change_aircraft[f(j)] * C_SWAP])
            delayed == SumOver(F, [j \in F |-> val.d[f(j)] * C_DELAY_PER_MIN])
            penalty == SumOver(SlackNames,
                               [n \in SlackNames |-> PenaltyOf(SlackPriority(n)) * val.aux[n]])
        IN  ObjectiveValue(m, val)
              = 10 * WeightOf(w, "cancel") * cancelled
                + 10 * WeightOf(w, "swap") * swapped
                + WeightOf(w, "delay") * delayed
                + 100 * penalty

\* the second run of a batch, under a cancel weight of 0.5, is solved with a
\* soft constraint's slack above zero
C5_Witness ==
    /\ Solved
    /\ i = 2
    /\ weight_sets[1] = DefaultWeights
    /\ weight_sets[2] = HalfCancel
    /\ \E n \in SlackNames : val.aux[n] > 0

\* the priority stated by the input rule a compiled row comes from
RulePriority(o) ==
    CASE o.family = "curfew" -> constraint_data.airport_restriction[o.k].PRIORITY
      [] o.family = "capacity" -> constraint_data.airport_capacity[o.k].details.priority
      [] o.family = "quota" -> IF o.k = 1 THEN constraint_data.quota.cancel.priority
                                          ELSE constraint_data.quota.swap.priority

SlackOf(c) == IF c.t \in {"curfew_ub", "curfew_lb"} THEN c.v ELSE c.slack

\* C6: in each of the three families a MUST rule is compiled to a hard
\* constraint with no slack variable, and a HIGH, MEDIUM or LOW rule to a
\* soft constraint whose slack is charged in the objective at PENALTY_HIGH,
\* PENALTY_MEDIUM or PENALTY_LOW.
C6_SeverityMapping ==
    pc = "solve" =>
        \A k \in DOMAIN m.cons :
            LET c == m.cons[k]
                terms == {j \in DOMAIN m.objective.penalty :
                            m.objective.penalty[j].var = SlackOf(c)}
            IN  ~IsStructural(c) =>
                  /\ RulePriority(c.origin) = "MUST" =>
                        /\ ~c.soft
                        /\ SlackOf(c) = NoName
                        /\ \A j \in DOMAIN m.penalty_terms :
                              m.penalty_terms[j].origin # c.origin
                  /\ RulePriority(c.origin) \in {"HIGH", "MEDIUM", "LOW"} =>
                        /\ c.soft
                        /\ SlackOf(c) \in m.comps
                        /\ Cardinality(terms) = 1
                        /\ \A j \in terms :
                              m.objective.penalty[j].cost = PenaltyOf(RulePriority(c.origin))

\* a model holding the soft row of a LOW capacity rule, its overage charged
\* at PENALTY_LOW
C6_Witness ==
    /\ pc = "solve"
    /\ \E k \in DOMAIN m.cons :
          /\ m.cons[k].t = "capacity"
          /\ m.cons[k].soft
          /\ RulePriority(m.cons[k].origin) = "LOW"
          /\ \E j \in DOMAIN m.objective.penalty :
                /\ m.objective.penalty[j].var = m.cons[k].slack
                /\ m.objective.penalty[j].cost = PENALTY_LOW

\* C7: in every feasible solution, for all f, x[f] + cancel[f] = 1 and
\* cancel[f] + swap[f] <= 1.
C7_OperatedXorCancelled ==
    Solved =>
        \A f \in DOMAIN val.x :
            /\ val.x[f] + val.cancel_flight[f] = 1
            /\ val.cancel_flight[f] + val.change_aircraft[f] <= 1

\* a feasible solution with one flight cancelled and the other swapped
C7_Witness ==
    /\ Solved
    /\ \E f, g \in DOMAIN val.x :
          /\ val.cancel_flight[f] = 1 /\ val.change_aircraft[f] = 0
          /\ val.x[g] = 1 /\ val.change_aircraft[g] = 1

\* C8: in every feasible solution, for all f, 0 <= d[f] <= max_delay_minutes,
\* and d[f] = 0 whenever cancel[f] = 1.
C8_DelayBounds ==
    Solved =>
        \A f \in DOMAIN val.d :
            /\ 0 <= val.d[f]
            /\ val.d[f] <= Tenths(m.max_delay_minutes)
            /\ val.cancel_flight[f] = 1 => val.d[f] = 0

\* a feasible solution with one flight delayed to the bound and the other
\* cancelled
C8_Witness ==
    /\ Solved
    /\ m.max_delay_minutes = severe_delay_threshold
    /\ \E f, g \in DOMAIN val.d :
          /\ val.x[f] = 1 /\ val.d[f] = Tenths(severe_delay_threshold)
          /\ val.cancel_flight[g] = 1

\* C9: in every feasible solution, for all f, operated or cancelled,
\* dep_mod[f] = target_dep_min_of_day[f] + d[f] and arr_mod[f] = dep_mod[f] +
\* flight_duration_minutes[f], both inside [0, 2880).
C9_TimeLinking ==
    Solved =>
        \A j \in DOMAIN flights_df :
            LET f == Row(j).flight_id
            IN  /\ val.dep_time_of_day[f] = Tenths(Row(j).target_dep_min_of_day) + val.d[f]
                /\ val.arr_time_of_day[f]
                      = val.dep_time_of_day[f] + Tenths(Row(j).flight_duration_minutes)
                /\ 0 <= val.dep_time_of_day[f]
                /\ val.dep_time_of_day[f] < Tenths(MINUTES_IN_TWO_DAYS)
                /\ 0 <= val.arr_time_of_day[f]
                /\ val.arr_time_of_day[f] < Tenths(MINUTES_IN_TWO_DAYS)

\* a feasible solution with one flight delayed and the other cancelled
C9_Witness ==
    /\ Solved
    /\ \E f, g \in DOMAIN val.d :
          /\ val.x[f] = 1 /\ val.d[f] = 7
          /\ val.cancel_flight[g] = 1

\* the row of the result table follows from (cancel, swap, d) of flight f;
\* target is the flight's target departure in minutes
DerivedRow(r, f, target) ==
    LET cancelled == 2 * val.cancel_flight[f] > 1
    IN  /\ r.status = IF cancelled THEN "cancelled" ELSE "operated"
        /\ r.adjustment_action =
              IF cancelled THEN "cancel"
              ELSE IF 2 * val.change_aircraft[f] > 1 THEN "swap"
              ELSE IF val.d[f] > 1 THEN "delay"
              ELSE "normal"
        /\ cancelled => r.additional_delay_minutes = 0
        /\ ~cancelled =>
              /\ 10 * r.additional_delay_minutes - val.d[f] <= 5
              /\ val.d[f] - 10 * r.additional_delay_minutes <= 5
        /\ r.adjusted_departure_time =
              IF cancelled THEN <<>> ELSE <<target + r.additional_delay_minutes>>

\* C10: for every flight of a solved model the result row has status
\* 'cancelled' iff cancel > 0.5, else 'operated'; action 'cancel' if
\* cancelled, else 'swap' if swap > 0.5, else 'delay' if d > 0.1, else
\* 'normal'; additional_delay_minutes the rounded d if operated and 0 if
\* cancelled; adjusted_departure_time the target plus that delay if operated
\* and null if cancelled.
C10_ResultRows ==
    [][ (Solved /\ pc' # pc) =>
          LET t == solutions'[Len(solutions')].table
          IN  /\ ~t.none
              /\ Len(t.rows) = Len(flights_df)
              /\ \A j \in DOMAIN flights_df :
                    DerivedRow(t.rows[j], Row(j).flight_id,
                               flights_df[j].target_departure_time)
      ]_vars

\* a returned table with a cancelled flight and a flight delayed by 0.7
\* minutes, reported as one minute
C10_Witness ==
    /\ pc = "done"
    /\ solutions[1].result
    /\ \E j, k \in DOMAIN solutions[1].table.rows :
          LET r == solutions[1].table.rows[j]
              q == solutions[1].table.rows[k]
          IN  /\ r.adjustment_action = "delay"
              /\ r.additional_delay_minutes = 1
              /\ r.adjusted_departure_time = <<r.target_departure_time + 1>>
              /\ q.adjustment_action = "cancel"
              /\ q.adjusted_departure_time = <<>>

\* the run in hand is scenario bundle b over the demonstration table under
\* the weights 1.0 / 0.3 / 0.3
InScenario(b) ==
    /\ flights_df = S1Flights
    /\ constraint_data = b
    /\ weight_sets[i] = DefaultWeights

SolvedOptimal == Solved /\ result.termination_condition = "optimal"

Operated == {f \in DOMAIN val.x : val.x[f] = 1}
Cancelled == {f \in DOMAIN val.cancel_flight : val.cancel_flight[f] = 1}

\* the overage variable of the capacity rule on PEK '08:00-09:00'
HourOverage == CompName("capacity_overage", "", "PEK", RangeKey(Time(8, 0), Time(9, 0)))

\* C11 as stated: in scenario S4 the optimum operates all three flights with
\* a capacity overage of 2 and objective 2 * PENALTY_HIGH.
C11_S4OperatesAll ==
    (SolvedOptimal /\ InScenario(S4Bundle)) =>
        /\ Cardinality(Operated) = 3
        /\ val.aux[HourOverage] = 2
        /\ ObjectiveValue(m, val) = 100 * 2 * PENALTY_HIGH

\* C11, amended: in scenario S4 the optimum operates one flight and cancels
\* two, with no delay, no swap, a capacity overage of 0 and objective
\* 2 * 30 000 = 60 000; operating all three is feasible only with an overage
\* of at least 2, at a cost of at least 2 * PENALTY_HIGH.
C11_S4CancelsTwo ==
    /\ (SolvedOptimal /\ InScenario(S4Bundle)) =>
          /\ Cardinality(Operated) = 1
          /\ Cardinality(Cancelled) = 2
          /\ \A f \in DOMAIN val.d : val.d[f] = 0 /\ val.change_aircraft[f] = 0
          /\ val.aux[HourOverage] = 0
          /\ ObjectiveValue(m, val) = 100 * 2 * 30000
    /\ (Solved /\ InScenario(S4Bundle) /\ Cardinality(Operated) = 3) =>
          /\ val.aux[HourOverage] >= 2
          /\ ObjectiveValue(m, val) >= 100 * 2 * PENALTY_HIGH

\* scenario S4 solved to optimality
C11_Witness ==
    /\ SolvedOptimal
    /\ InScenario(S4Bundle)
    /\ Cardinality(Cancelled) = 2

C13_S5RecordsInfeasible ==
    [][ /\ (pc = "solve" /\ InScenario(S5Bundle)) => FeasibleSet(m) = {}
        /\ ( /\ pc = "extract" /\ InScenario(S5Bundle)
             /\ result.termination_condition = "infeasible" ) =>
              /\ GetOptimizationResults(m, flights_df, result, val).none
              /\ ~solutions'[i].result
              /\ solutions'[i].table.none
              /\ "reason" \in DOMAIN solutions'[i]
              /\ solutions'[i].reason = "infeasible"
      ]_vars

\* w2 differs from w1 by a greater cancel weight only
RaisesCancelWeight(w1, w2) ==
    /\ IsDict(w1) /\ IsDict(w2)
    /\ WeightOf(w1, "swap") = WeightOf(w2, "swap")
    /\ WeightOf(w1, "delay") = WeightOf(w2, "delay")
    /\ WeightOf(w1, "cancel") < WeightOf(w2, "cancel")

\* the optimal assignments of the same flights and constraints under w
OptimaUnder(w) ==
    LET mm == BuildModel(flights_df, constraint_data, w, severe_delay_threshold, big_m)
    IN  OptimalSet(mm, FeasibleSet(mm))

CancelCount(a) == Cardinality({f \in DOMAIN a.cancel_flight : a.cancel_flight[f] = 1})

CancelledRevenue(a) ==
    SumOver(DOMAIN flights_df,
            [j \in DOMAIN flights_df |->
                a.cancel_flight[Row(j).flight_id] * Row(j).revenue])

\* C14 as stated: with all else fixed, a greater w_cancel never strictly
\* decreases the number of cancelled flights of the optimal solution.
C14_CancelCountNeverDecreases ==
    (SolvedOptimal /\ i = 2 /\ RaisesCancelWeight(weight_sets[1], weight_sets[2])) =>
        \A a \in OptimaUnder(weight_sets[1]) : CancelCount(val) >= CancelCount(a)

\* C14, amended: with all else fixed, a greater w_cancel never strictly
\* increases the cancelled revenue (the sum of cancel[f] * revenue[f]) of the
\* optimal solution, and so, among flights of equal revenue, never strictly
\* increases the number of cancelled flights.
C14_CancelledRevenueNeverIncreases ==
    (SolvedOptimal /\ i = 2 /\ RaisesCancelWeight(weight_sets[1], weight_sets[2])) =>
        \A a \in OptimaUnder(weight_sets[1]) :
            /\ CancelledRevenue(val) <= CancelledRevenue(a)
            /\ (\A j, k \in DOMAIN flights_df : Row(j).revenue = Row(k).revenue)
                  => CancelCount(val) <= CancelCount(a)

\* the flight is cancelled at a cancel weight of 0.1 and operated, over a
\* soft capacity, at a cancel weight of 1.0
C14_Witness ==
    /\ SolvedOptimal
    /\ i = 2
    /\ weight_sets = <<LowCancel, DefaultWeights>>
    /\ CancelCount(val) = 0
    /\ \E a \in OptimaUnder(LowCancel) : CancelCount(a) = 1

\* the restriction row is an AIRPORT_CURFEW whose start time of day is
\* strictly after its end time of day
WrapAroundCurfew(r) ==
    /\ r.RESTRICTION_TYPE = "AIRPORT_CURFEW"
    /\ WellFormed(r.START_TIME_OF_DAY) /\ WellFormed(r.END_TIME_OF_DAY)
    /\ MinutesOfDay(r.START_TIME_OF_DAY) > MinutesOfDay(r.END_TIME_OF_DAY)

\* the model of the same run built from the wrap-around curfew rows alone
WithoutOtherRows ==
    BuildModel(flights_df,
               [constraint_data EXCEPT
                  !.airport_restriction = SelectSeq(@, WrapAroundCurfew)],
               weight_sets[i], severe_delay_threshold, big_m)

\* C15: a restriction row changes the model only when it is an
\* AIRPORT_CURFEW with start strictly after end; any other row adds no
\* variable, no constraint and no penalty term, and leaves the feasible set
\* and the optimum as they are without it (scenario S2: all three flights
\* normal with d = 0).
C15_OnlyWrapAroundCurfewsCount ==
    /\ pc = "solve" =>
          /\ \A k \in DOMAIN constraint_data.airport_restriction :
                ~WrapAroundCurfew(constraint_data.airport_restriction[k]) =>
                    /\ \A n \in DOMAIN m.cons :
                          ~IsStructural(m.cons[n]) =>
                              m.cons[n].origin # [family |-> "curfew", k |-> k]
                    /\ \A n \in DOMAIN m.penalty_terms :
                          m.penalty_terms[n].origin # [family |-> "curfew", k |-> k]
          /\ \E without \in {WithoutOtherRows} :
                /\ m.comps = without.comps
                /\ Len(m.cons) = Len(without.cons)
                /\ Len(m.penalty_terms) = Len(without.penalty_terms)
                /\ m.objective = without.objective
                /\ \E FS \in {FeasibleSet(m)} :
                      /\ FS = FeasibleSet(without)
                      /\ OptimalSet(m, FS) = OptimalSet(without, FS)
    /\ (SolvedOptimal /\ InScenario(S2Bundle)) =>
          /\ Cardinality(Operated) = 3
          /\ \A f \in DOMAIN val.d : val.d[f] = 0 /\ val.change_aircraft[f] = 0
          /\ ObjectiveValue(m, val) = 0

\* scenario S2, whose two curfews are same-day windows, solved to optimality
\* with the model free of curfew components
C15_Witness ==
    /\ SolvedOptimal
    /\ InScenario(S2Bundle)
    /\ m.comps = {}
    /\ Cardinality(Operated) = 3

\* a restriction row whose times cannot be parsed
MalformedRow(r) ==
    /\ r.RESTRICTION_TYPE = "AIRPORT_CURFEW"
    /\ ~(WellFormed(r.START_TIME_OF_DAY) /\ WellFormed(r.END_TIME_OF_DAY))

\* a capacity entry with an unknown window syntax, an unparseable time or a
\* non-numeric limit
MalformedEntry(e) ==
    \/ e.win_key.syntax \notin {"range", "plus"}
    \/ ~WellFormed(e.win_key.s)
    \/ ~WellFormed(e.win_key.e)
    \/ ~e.details.limit_numeric

WellFormedRow(r) == ~MalformedRow(r)
WellFormedEntry(e) == ~MalformedEntry(e)

\* the model of the same run built from the well-formed rules alone
WithoutMalformed ==
    BuildModel(flights_df,
               [constraint_data EXCEPT
                  !.airport_restriction = SelectSeq(@, WellFormedRow),
                  !.airport_capacity = SelectSeq(@, WellFormedEntry)],
               weight_sets[i], severe_delay_threshold, big_m)

\* C16: a malformed rule (unparseable time, unknown window syntax,
\* non-numeric limit) is skipped on its own: build_model still returns a
\* model, and that model holds what the other, well-formed rules of the
\* bundle compile to.
C16_MalformedRuleSkipped ==
    (pc = "build" /\ IsDict(weight_sets[i])) =>
        /\ ~BuiltModel.raised
        /\ BuiltModel.comps = WithoutMalformed.comps
        /\ Len(BuiltModel.cons) = Len(WithoutMalformed.cons)
        /\ Len(BuiltModel.penalty_terms) = Len(WithoutMalformed.penalty_terms)

\* what a solve can end as: the solver status and the termination condition
SolverResults ==
    [status : {"ok", "warning", "aborted", "error"},
     termination_condition : {"optimal", "feasible", "infeasible", "unbounded",
                              "maxTimeLimit", "error"}]

Success(res) ==
    res.status = "ok" /\ res.termination_condition \in {"optimal", "feasible"}

\* C17: result extraction returns a table if and only if the solve ended as
\* optimal or as feasible (a time-limit stop that holds a feasible
\* solution); for infeasible, unbounded, error and time-limit-without-
\* solution endings it returns null.
C17_TableIffSuccess ==
    pc = "extract" =>
        /\ Success(result) =>
              LET t == GetOptimizationResults(m, flights_df, result, val)
              IN  ~t.none /\ Len(t.rows) = Len(flights_df)
        /\ \A res \in SolverResults :
              ~Success(res) => GetOptimizationResults(m, flights_df, res, val) = NoTable
        /\ result \in SolverResults

\* a solve over an unconstrained table that stopped with a feasible solution
\* costlier than the optimum
C17_Witness ==
    /\ pc = "extract"
    /\ result = [status |-> "ok", termination_condition |-> "feasible"]
    /\ constraint_data = Bundle(<<>>, <<>>, NoQuota)
    /\ ObjectiveValue(m, val) > 0
    /\ ~GetOptimizationResults(m, flights_df, result, val).none

\* C18: each outcome returned by batch_solve carries the weight vector it
\* was solved with: for every k, the k-th outcome's weights are the k-th
\* weight vector (stated here for the runs that were solved).
C18_OutcomeCarriesWeights ==
    pc = "done" =>
        /\ Len(solutions) = Len(weight_sets)
        /\ \A k \in DOMAIN solutions :
              (IsDict(weight_sets[k]) /\ solutions[k].result) =>
                  /\ "weights" \in DOMAIN solutions[k]
                  /\ solutions[k].weights = weight_sets[k]

\* the model that the flight table, the constraint bundle, the shared limits
\* and the weight vector w determine
ModelOf(w) == BuildModel(flights_df, constraint_data, w, severe_delay_threshold, big_m)

\* C19: the outcome of a weight vector W depends only on the flight table,
\* the constraint bundle, the shared limits and W, whatever the other
\* vectors of the list, W's position and the fate of earlier runs: the model
\* solved at position i is the one these inputs and W_i determine, the
\* values extracted satisfy every row of that model, the outcome appended
\* is extracted from them alone, earlier outcomes are left as they are, and
\* the caller's flight table and constraint bundle never change.
C19_RunsIndependent ==
    [][ /\ flights_df' = flights_df
        /\ constraint_data' = constraint_data
        /\ weight_sets' = weight_sets
        /\ pc' \in {"solve", "extract"} => m' = ModelOf(weight_sets[i'])
        /\ (pc' = "extract" /\ Success(result')) =>
              \A k \in DOMAIN m'.cons : Holds(m'.cons[k], val')
        /\ Len(solutions') > Len(solutions) =>
              /\ Len(solutions') = Len(solutions) + 1
              /\ \A k \in DOMAIN solutions : solutions'[k] = solutions[k]
              /\ \/ solutions'[i] = Failed
                 \/ /\ pc = "extract" /\ Success(result)
                    /\ solutions'[i] =
                          [result |-> TRUE,
                           table |-> GetOptimizationResults(m, flights_df, result, val)]
        /\ pc' \in {"build", "done"} => (m' = NoModel /\ val' = NoVal /\ result' = NoResult)
      ]_vars

\* a batch whose first run failed in the solver and whose second run, under
\* another weight vector, was solved
C19_Witness ==
    /\ pc = "done"
    /\ weight_sets = <<HalfCancel, DefaultWeights>>
    /\ solutions[1] = Failed
    /\ solutions[2].result
    /\ Len(solutions[2].table.rows) = Len(flights_df)

\* the ids of the table the model is built from
BuiltFromIds == [j \in DOMAIN flights_df |-> Row(j).flight_id]

\* C20: the flight table the model is built from has pairwise distinct
\* flight_id values for any input; colliding incoming ids have been replaced
\* by F1, F2, ... in input order by the time the model's flight set is
\* declared.
C20_FlightIdsDistinct ==
    pc # "build" =>
        \A j, k \in DOMAIN flights_df :
            j # k => BuiltFromIds[j] # BuiltFromIds[k]

\* C21: after normalization every flight has flight_duration_minutes > 0,
\* for any input, also for rows whose expected arrival is not later than
\* their expected departure and for rows whose duration is missing.
C21_DurationPositive ==
    pc = "solve" =>
        \A k \in DOMAIN m.df : m.df[k].flight_duration_minutes > 0

\* C22: a flight whose base_delay_minutes exceeds max_delay_minutes is
\* operable only via cancellation: every feasible solution has x[f] = 0 for
\* it.
C22_LateFlightOnlyCancelled ==
    Solved =>
        \A k \in DOMAIN m.df :
            m.df[k].base_delay_minutes > m.max_delay_minutes => val.x[m.F[k]] = 0

\* C23: flight normalization is idempotent: normalizing the normalized table
\* gives the same table, with the same flight ids, target departure,
\* duration, revenue, base_delay_minutes and target_dep_min_of_day; this
\* holds for the caller's table and for the table the model was built from.
C23_NormalizeIdempotent ==
    /\ NormalizeFlightDf(NormalizeFlightDf(flights_df)) = NormalizeFlightDf(flights_df)
    /\ pc = "solve" =>
          /\ m.df = NormalizeFlightDf(flights_df)
          /\ NormalizeFlightDf(m.df) = m.df

\* a model built from the table loaded from the CDM file, which has no STOT
\* and no flight_id column and a flight whose target lies 35 minutes behind
\* its schedule
C23_Witness ==
    /\ pc = "solve"
    /\ flights_df = LoadCdmData(CdmRows)
    /\ "STOT" \notin DOMAIN flights_df[2]
    /\ "flight_id" \notin DOMAIN flights_df[2]
    /\ m.df[2].base_delay_minutes = 35
    /\ m.df[2].flight_id = "CA203"
    /\ NormalizeFlightDf(m.df) = m.df

\* the two Big-M rows of the curfew pairs of model mm
CurfewRows(mm) ==
    {mm.cons[k] : k \in {j \in DOMAIN mm.cons :
                            mm.cons[j].t \in {"curfew_ub", "curfew_lb"}}}

\* times of the range of the time variables: every full hour and both ends
TimesInRange ==
    {Tenths(60 * h) : h \in 0..47} \cup {0, Tenths(MINUTES_IN_TWO_DAYS - 1)}

\* the values a curfew row c reads, with c's flight cancelled, its time
\* variable at t, its selector at y and its violation flag at v
CancelledAt(c, t, y, v) ==
    [cancel_flight |-> (c.f :> 1),
     dep_time_of_day |-> (c.f :> t),
     arr_time_of_day |-> (c.f :> t),
     aux |-> IF c.soft THEN (c.y :> y) @@ (c.v :> v) ELSE (c.y :> y)]

\* every curfew row of mm holds for a cancelled flight
VacuousWhenCancelled(mm) ==
    \A c \in CurfewRows(mm) :
        \A t \in TimesInRange, y \in 0..1, v \in 0..1 :
            Holds(c, CancelledAt(c, t, y, v))

\* C24: cancelling a flight makes every curfew constraint on it vacuous:
\* under the Big-M of batch_solve (50 000) and under build_model's default
\* (10 000), with the time variable anywhere in [0, 2879], an assignment
\* with cancel[f] = 1 satisfies both inequalities of every hard or soft
\* curfew rule applied to f, for either value of the selector y.
C24_CancelledCurfewVacuous ==
    pc = "solve" =>
        /\ m.cons # <<>>
        /\ \A c \in CurfewRows(m) : c.M = big_m
        /\ VacuousWhenCancelled(m)
        /\ \A c \in CurfewRows(SolveModel(weight_sets[i])) : c.M = default_big_m
        /\ VacuousWhenCancelled(SolveModel(weight_sets[i]))

\* a solved run with a soft curfew pair on a flight that the solver
\* cancelled, with the violation flag at 0
C24_Witness ==
    /\ Solved
    /\ \E c \in CurfewRows(m) :
          /\ c.soft
          /\ val.cancel_flight[c.f] = 1
          /\ val.aux[c.v] = 0
          /\ \A y \in 0..1 :
                Holds(c, CancelledAt(c, TimeOf(val, c), y, 0))
    /\ \E c \in CurfewRows(m) : ~c.soft

\* the values a curfew row c reads, with c's flight operated, its time
\* variable at t, its selector at y and its violation flag at v
OperatedAt(c, t, y, v) ==
    [cancel_flight |-> (c.f :> 0),
     dep_time_of_day |-> (c.f :> t),
     arr_time_of_day |-> (c.f :> t),
     aux |-> IF c.v # NoName THEN (c.y :> y) @@ (c.v :> v) ELSE (c.y :> y)]

\* the curfew rows that the rule of row c yields for c's flight when the
\* rule is stated alone and as MUST
HardForm(c) ==
    LET r == constraint_data.airport_restriction[c.origin.k]
        alone == Bundle(<<[r EXCEPT !.PRIORITY = "MUST"]>>, <<>>, NoQuota)
        mh == BuildModel(flights_df, alone, weight_sets[i], m.max_delay_minutes, c.M)
    IN  {h \in CurfewRows(mh) : h.f = c.f /\ h.t = c.t}

\* the curfew rows of m that come from rules stated as HIGH, MEDIUM or LOW
SoftRuleRows ==
    {c \in CurfewRows(m) : RulePriority(c.origin) \in {"HIGH", "MEDIUM", "LOW"}}

\* C25: for a soft (HIGH, MEDIUM or LOW) curfew rule applied to an operated
\* flight: with viol = 0 the time variable is restricted exactly as under
\* the hard form of the rule; with viol = 1 both Big-M inequalities hold for
\* every time in [0, 2879]; and a viol of 1 adds exactly the priority's
\* PENALTY to the objective.
C25_SoftCurfewRelease ==
    /\ pc = "solve" =>
          \A c \in SoftRuleRows :
              /\ Cardinality(HardForm(c)) = 1
              /\ \A h \in HardForm(c) :
                    \A t \in TimesInRange, y \in 0..1 :
                        Holds(c, OperatedAt(c, t, y, 0)) <=> Holds(h, OperatedAt(h, t, y, 0))
              /\ \A t \in TimesInRange, y \in 0..1 : Holds(c, OperatedAt(c, t, y, 1))
    /\ Solved =>
          \A c \in SoftRuleRows :
              /\ c.v \in DOMAIN val.aux
              /\ ObjectiveValue(m, [val EXCEPT !.aux[c.v] = 1])
                    - ObjectiveValue(m, [val EXCEPT !.aux[c.v] = 0])
                 = 100 * PenaltyOf(RulePriority(c.origin))

\* a solved run in which an operated flight violates a MEDIUM curfew: the
\* flag is 1 and the flight's time lies where the hard form forbids it
C25_Witness ==
    /\ Solved
    /\ \E c \in SoftRuleRows :
          /\ RulePriority(c.origin) = "MEDIUM"
          /\ val.cancel_flight[c.f] = 0
          /\ val.aux[c.v] = 1
          /\ \A y \in 0..1 :
                \E g \in HardForm([c EXCEPT !.t = "curfew_ub"]) \cup
                         HardForm([c EXCEPT !.t = "curfew_lb"]) :
                    ~Holds(g, OperatedAt(g, TimeOf(val, c), y, 0))

\* C26: every wrap-around AIRPORT_CURFEW rule of the input is compiled for
\* every flight that departs from or arrives at its airport, also when
\* several rules name the same airport: each rule contributes its own pair
\* of rows for each of those flights.
C26_EveryCurfewRuleCompiled ==
    pc = "solve" =>
        \A k \in DOMAIN constraint_data.airport_restriction :
            LET r == constraint_data.airport_restriction[k]
            IN  WrapAroundCurfew(r) =>
                  \A j \in DOMAIN m.df :
                      r.AIRPORT_CODE \in {m.df[j].departure_airport,
                                          m.df[j].arrival_airport}
                          => \A kind \in {"curfew_ub", "curfew_lb"} :
                                \E c \in CurfewRows(m) :
                                    /\ c.origin = [family |-> "curfew", k |-> k]
                                    /\ c.f = m.F[j]
                                    /\ c.t = kind

\* C27: swapping relaxes no constraint, so whenever w_swap * C_SWAP > 0
\* every optimal solution has swap[f] = 0 for all flights and the result
\* table extracted from it holds no adjustment action 'swap'; moreover a
\* feasible assignment stays feasible with all its swaps undone.
C27_NoSwapAtOptimum ==
    /\ (SolvedOptimal /\ m.objective.w_swap * C_SWAP > 0) =>
          /\ \A f \in FlightSet(m) : val.change_aircraft[f] = 0
          /\ \A k \in DOMAIN flights_df :
                GetOptimizationResults(m, flights_df, result, val).rows[k].adjustment_action
                    # "swap"
    /\ Solved =>
          \A c \in Range(m.cons) :
              Holds(c, [val EXCEPT !.change_aircraft = [f \in DOMAIN @ |-> 0]])

\* an optimum under a positive swap weight and a swap quota, none of whose
\* flights is swapped although swapping one is feasible
C27_Witness ==
    /\ SolvedOptimal
    /\ m.objective.w_swap * C_SWAP > 0
    /\ constraint_data.quota.swap.present
    /\ constraint_data.quota.swap.max > 0
    /\ \A f \in FlightSet(m) : val.change_aircraft[f] = 0
    /\ \E f \in FlightSet(m) :
          \A c \in Range(m.cons) :
              Holds(c, [val EXCEPT !.change_aircraft[f] = 1])

\* C28: with default arguments batch_solve builds, for each weight vector,
\* the same model as solve and build_model build for that vector; in
\* particular every d[f] of a batch result is bounded by build_model's
\* default max_delay_minutes of 240.
C28_BatchBuildsSolveModel ==
    /\ pc = "solve" => m = SolveModel(weight_sets[i])
    /\ Solved =>
          \A f \in FlightSet(m) : val.d[f] <= Tenths(default_max_delay_minutes)

\* a rule that states no priority
UnstatedCurfew(r) ==
    WrapAroundCurfew(r) /\ ("PRIORITY" \notin DOMAIN r \/ r.PRIORITY = NaN)
UnstatedCapacity(e) ==
    /\ e.details.has_limit /\ e.details.limit_numeric
    /\ (e.details.is_dict => e.details.priority = "")
UnstatedQuota(q) == q.present /\ q.has_max /\ q.priority = ""

\* the rules without a priority that apply to a flight of the table, named
\* as the rows of the model name their rule
UnstatedOrigins(mm) ==
    {[family |-> "curfew", k |-> k] :
        k \in {j \in DOMAIN constraint_data.airport_restriction :
                 /\ UnstatedCurfew(constraint_data.airport_restriction[j])
                 /\ \E n \in DOMAIN mm.df :
                       constraint_data.airport_restriction[j].AIRPORT_CODE
                          \in {mm.df[n].departure_airport, mm.df[n].arrival_airport}}}
    \cup {[family |-> "capacity", k |-> k] :
            k \in {j \in DOMAIN constraint_data.airport_capacity :
                     LET e == constraint_data.airport_capacity[j]
                         w == ParseWindow(e.win_key)
                     IN  /\ UnstatedCapacity(e)
                         /\ w.ok
                         /\ FlightsInWindow(mm, e.ap, w.start_min, w.end_min) # {}}}
    \cup {[family |-> "quota", k |-> 1] : q \in {constraint_data.quota.cancel} \cap
                                                {r \in {constraint_data.quota.cancel} :
                                                    UnstatedQuota(r)}}
    \cup {[family |-> "quota", k |-> 2] : q \in {constraint_data.quota.swap} \cap
                                                {r \in {constraint_data.quota.swap} :
                                                    UnstatedQuota(r)}}

\* C29: a curfew, capacity or quota rule that states no priority (a curfew
\* row without PRIORITY, a capacity entry given as a raw integer or as a
\* dict without 'priority', a quota without 'priority') is compiled as a
\* soft constraint charged at PENALTY_HIGH, never as a hard constraint.
C29_UnstatedPriorityIsSoftHigh ==
    (pc = "done" /\ ~IndexDuplicated(NormalizeFlightDf(flights_df))) =>
        \E mm \in {ModelOf(weight_sets[1])} :
            \A o \in UnstatedOrigins(mm) :
                /\ ~mm.raised
                /\ \E k \in DOMAIN mm.cons :
                      ~IsStructural(mm.cons[k]) /\ mm.cons[k].origin = o
                /\ \A k \in DOMAIN mm.cons :
                      (~IsStructural(mm.cons[k]) /\ mm.cons[k].origin = o)
                          => mm.cons[k].soft
                /\ \E j \in DOMAIN mm.penalty_terms : mm.penalty_terms[j].origin = o
                /\ \A j \in DOMAIN mm.penalty_terms :
                      mm.penalty_terms[j].origin = o
                          => mm.objective.penalty[j].cost = PENALTY_HIGH

\* the soft capacity and quota rows of m
SoftCountRows ==
    {c \in Range(m.cons) : c.t \in {"capacity", "quota"} /\ c.soft}

\* what a capacity or quota row counts: the operated flights of its window,
\* the cancellations, or the swaps
CountOf(c, a) ==
    IF c.t = "capacity" THEN SumOver(c.flights, a.x)
    ELSE IF c.kind = "cancel" THEN SumOver(DOMAIN a.cancel_flight, a.cancel_flight)
    ELSE SumOver(DOMAIN a.change_aircraft, a.change_aircraft)

Max(a, b) == IF a > b THEN a ELSE b

\* C30: in every optimal solution each soft capacity or quota overage equals
\* max(0, count - limit) of its rule, so the soft-constraint check reports a
\* slack above 0.001 exactly for the rules whose limit is exceeded.
C30_OverageIsExcess ==
    SolvedOptimal =>
        \A c \in SoftCountRows :
            /\ val.aux[c.slack] = Max(0, CountOf(c, val) - c.limit)
            /\ c.slack \in SoftConstraintCheck(m, val) <=> CountOf(c, val) > c.limit

\* an optimum that operates two flights through a soft capacity of one: the
\* overage is 1 and the check reports it
C30_Witness ==
    /\ SolvedOptimal
    /\ \E c \in SoftCountRows :
          /\ c.t = "capacity"
          /\ CountOf(c, val) = 2
          /\ c.limit = 1
          /\ val.aux[c.slack] = 1
          /\ c.slack \in SoftConstraintCheck(m, val)

====
